---- MODULE Spec2Model ----
(***************************************************************************)
(* A model of the training orchestration of drone_rl.py: the episode state *)
(* machine of DroneRLInterface.train, the receive loop with process_state, *)
(* the reset tasks, the termination verdict is_episode_done and the        *)
(* reconnection logic of the transport session; of DQNAgent (the replay    *)
(* buffer, replay, save and load) and extract_state_features on their own;  *)
(* and of the rate limit of drone_control.py's send_command.                *)
(*                                                                         *)
(* Lengths are in millimetres, angles in degrees, rewards in hundredths.   *)
(* asyncio is cooperative: an action is the code a task runs between two   *)
(* suspension points (an await on a send or on a sleep).                   *)
(***************************************************************************)
EXTENDS Integers, Sequences, FiniteSets, TLC

VARIABLES
    \* ---- DroneRLInterface fields ----
    training_state,          \* "IDLE" | "RESETTING" | "EPISODE_RUNNING"
    reset_in_progress,
    training_mode,
    drone_state,             \* the telemetry slot (NoData = None)
    current_state,           \* telemetry whose features are current_state (NoData = None)
    current_action,          \* 0 = None, else an action id
    episode_steps,
    max_episode_steps,
    episode_done_reason,
    prev_distance_to_target, \* -1 = None, else a distance in mm
    episode_rewards,
    best_reward,
    \* ---- agent ----
    memory_size,             \* len(agent.memory)
    memory_last,             \* the transition appended last (NoTransition when empty)
    step_counter,            \* agent.step_counter: number of training updates
    \* ---- locals of train() and the position of the train task ----
    pc, ret, episodes, steps_per_episode, current_episode, episode_reward, elapsed,
    \* ---- the other tasks ----
    tasks,                   \* reset tasks made by process_state: position -> how many
    \* ---- observation ----
    sent,                    \* messages handed to send_message since the head of
                             \* the episode, per type
    delivered,               \* state messages the receive loop has processed
    attempts,                \* episode heads run by train(), up to MaxAttempts
    saves,                   \* agent.save calls that succeeded
    counted,                 \* episodes whose duration exceeded 1.0 s
    selected,                \* the pair the step loop stored at its latest step
    head_delivered,          \* value of delivered at the head of the current episode
    ts_changes,              \* every (from, to) change of training_state so far
    memorize_state,          \* training_state at the latest agent.memorize ("" before)
    calls_during_reset,      \* reset_simulation calls made while reset_in_progress
    last_reset_end,          \* how the latest reset_simulation body ended
    \* ---- is_episode_done called on its own ----
    d_ts, d_sd, d_steps, d_max, d_reason, d_out,
    \* ---- transport session ----
    connected, reconnect_attempts, max_reconnect_attempts, websocket,
    c_pc, c_script, c_result, c_calls, c_opened, c_depth,
    \* ---- scripted telemetry ----
    script_start,            \* step index of the script's first sample
    \* ---- connect(), send_message() and reconnect() as a call stack ----
    s_stack,                 \* the frames under way, the innermost last
    s_tries,                 \* every websocket.send of the owner's latest call
    s_gaveup,                \* reconnect() calls that returned at the ceiling check
    s_dials,                 \* connection attempts of the owner's latest call
    \* ---- receive_messages() ----
    r_pc,                    \* position of the receive loop
    r_inbox,                 \* messages the server has sent that the loop has not read
    r_read,                  \* messages the loop has read
    r_kind,                  \* kind of the latest message or failure the loop met
    r_log,                   \* the messages the loop has read, in order
    r_target,                \* where the slot's targetPosition comes from
    r_closes,                \* failures of the loop's connection
    \* ---- DQNAgent on its own ----
    a_memory,                \* agent.memory
    a_inserted,              \* every transition given to agent.memorize, in call order
    a_len,                   \* len(agent.memory) where only the length matters
    a_epsilon,               \* agent.epsilon, in units of 1e-9
    a_epsilon_decay,         \* agent.epsilon_decay, in thousandths
    a_step_counter,          \* agent.step_counter
    a_model,                 \* parameters of agent.model: how many fits made them
    a_target,                \* parameters of agent.target_model, likewise
    \* ---- extract_state_features called on its own ----
    f_in,                    \* its state_data
    f_out,                   \* the vector it returned (<<>> before the call)
    \* ---- DQNAgent.save and DQNAgent.load ----
    k_path,                  \* the filepath given to save and to load
    k_disk,                  \* the weight files on disk: {[file, params]}
    k_model,                 \* parameters of agent.model
    k_target,                \* parameters of agent.target_model
    k_saved,                 \* parameters of agent.model when save was called
    k_pc,                    \* how far the save and the load have come
    \* ---- DroneSimulationInterface.send_command (drone_control.py) ----
    q_now,                   \* time.time(), in hundredths of a second
    q_last,                  \* last_command_time
    q_connected,             \* connected
    q_log,                   \* every call of send_command: its time and what became of it
    \* ---- websocket_server.py ----
    connected_clients,       \* the registered clients
    relay_drone_state,       \* the server's drone_state: the latest state message (0 = None)
    received,                \* the messages the server has received, in order
    forwarded,               \* the deliveries made: {[to, n]}, n an index of received
    bcast,                   \* the latest broadcast_message call and how far it has come
    joins                    \* connections accepted so far

trainVars == <<training_state, reset_in_progress, training_mode, drone_state,
               current_state, current_action, episode_steps, max_episode_steps,
               episode_done_reason, prev_distance_to_target, episode_rewards,
               best_reward, memory_size, memory_last, step_counter, pc, ret,
               episodes, steps_per_episode, current_episode, episode_reward,
               elapsed, tasks, sent, delivered, attempts, ts_changes,
               memorize_state, calls_during_reset, last_reset_end, saves,
               head_delivered, counted, selected>>
doneVars == <<d_ts, d_sd, d_steps, d_max, d_reason, d_out>>
connVars == <<connected, reconnect_attempts, max_reconnect_attempts, websocket,
              c_pc, c_script, c_result, c_calls, c_opened, c_depth>>
scriptVars == <<script_start>>
sendVars == <<s_stack, s_tries, s_gaveup, s_dials>>
recvVars == <<r_pc, r_inbox, r_read, r_kind, r_log, r_target, r_closes>>
memoVars == <<a_memory, a_inserted>>
replayVars == <<a_len, a_epsilon, a_epsilon_decay, a_step_counter, a_model, a_target>>
agentVars == <<memoVars, replayVars>>
featVars == <<f_in, f_out>>
ckptVars == <<k_path, k_disk, k_model, k_target, k_saved, k_pc>>
progVars == <<trainVars, doneVars, connVars, scriptVars, sendVars, recvVars>>
rateVars == <<q_now, q_last, q_connected, q_log>>
relayVars == <<connected_clients, relay_drone_state, received, forwarded, bcast, joins>>
pureVars == <<agentVars, featVars, ckptVars, rateVars, relayVars>>
restVars == <<sendVars, recvVars, pureVars>>
vars == <<trainVars, doneVars, connVars, scriptVars, restVars>>

------------------------------------------------------------------------------
(* Program constants.                                                       *)

target_x == 30000
target_z == 30000
target_radius == 2500
min_altitude == 500
start_steps_grace_period == 20
max_tilt == 75
batch_size == 32
DefaultMaxEpisodeSteps == 1000
DefaultMaxReconnectAttempts == 5
NegInf == -1000000000

TrainingStates == {"IDLE", "RESETTING", "EPISODE_RUNNING"}

(* Telemetry: position (mm), pitch = rotation.x, roll = rotation.z.  A      *)
(* missing sub-field reads as 0 (dict.get(..., 0)).                         *)
NoData == [present |-> FALSE, x |-> 0, y |-> 0, z |-> 0, pitch |-> 0, roll |-> 0]
Tel(x, y, z, pitch, roll) ==
    [present |-> TRUE, x |-> x, y |-> y, z |-> z, pitch |-> pitch, roll |-> roll]

Abs(n) == IF n < 0 THEN -n ELSE n

(* <= in place of < *)
WithinRadiusInclusive(dx, dz) ==
    /\ Abs(dx) <= target_radius
    /\ Abs(dz) <= target_radius
    /\ dx * dx + dz * dz <= target_radius * target_radius

(* np.sqrt(dx**2 + dz**2) < target_radius, decided on the squares; the      *)
(* first two conjuncts keep the squares small.                              *)
WithinRadius(dx, dz) ==
    /\ Abs(dx) < target_radius
    /\ Abs(dz) < target_radius
    /\ dx * dx + dz * dz < target_radius * target_radius

HorizontalOnTarget(sd) == WithinRadius(sd.x - target_x, sd.z - target_z)
------------------------------------------------------------------------------
(* is_episode_done: the verdict and the value it leaves in                  *)
(* episode_done_reason (old when it returns before touching the field).     *)

Verdict(done, reason) == [done |-> done, reason |-> reason]

TiltExceeded(sd) == Abs(sd.pitch) > max_tilt \/ Abs(sd.roll) > max_tilt

(* a threshold under the script's last-but-one altitude                     *)
IsLandedBelowScript(sd) == sd.y < 300

(* is_landed = position['y'] < self.min_altitude                            *)
IsLanded(sd) == sd.y < min_altitude

LandingEnabled(steps) == steps > start_steps_grace_period

InGracePeriod(steps) == steps < start_steps_grace_period

LandingReason(sd) ==
    IF HorizontalOnTarget(sd) THEN "landed_on_target" ELSE "landed_outside"

(* the landing check moved in front of the tilt check                       *)
IsEpisodeDoneLandingFirst(ts, sd, steps, maxs, old) ==
    IF ts # "EPISODE_RUNNING" THEN Verdict(FALSE, old)
    ELSE IF ~sd.present THEN Verdict(TRUE, "no_state")
    ELSE IF InGracePeriod(steps) THEN Verdict(FALSE, old)
    ELSE IF IsLanded(sd) /\ LandingEnabled(steps) THEN Verdict(TRUE, LandingReason(sd))
    ELSE IF TiltExceeded(sd) THEN Verdict(TRUE, "tilt")
    ELSE IF steps >= maxs THEN Verdict(TRUE, "max_steps")
    ELSE Verdict(FALSE, "none")

IsEpisodeDone(ts, sd, steps, maxs, old) ==
    IF ts # "EPISODE_RUNNING" THEN Verdict(FALSE, old)
    ELSE IF ~sd.present THEN Verdict(TRUE, "no_state")
    ELSE IF InGracePeriod(steps) THEN Verdict(FALSE, old)
    ELSE IF TiltExceeded(sd) THEN Verdict(TRUE, "tilt")
    ELSE IF IsLanded(sd) /\ LandingEnabled(steps) THEN Verdict(TRUE, LandingReason(sd))
    ELSE IF steps >= maxs THEN Verdict(TRUE, "max_steps")
    ELSE Verdict(FALSE, "none")

------------------------------------------------------------------------------
(* calculate_reward, in hundredths of a reward unit, and the distance it    *)
(* remembers.  The square root and the quotient are rounded down.           *)

RECURSIVE SqrtBetween(_, _, _)
SqrtBetween(n, lo, hi) ==
    IF lo >= hi THEN lo
    ELSE LET mid == (lo + hi + 1) \div 2
         IN  IF mid * mid <= n THEN SqrtBetween(n, mid, hi)
             ELSE SqrtBetween(n, lo, mid - 1)

ISqrt(n) == SqrtBetween(n, 0, 46340)

SqrtDistance(sd) ==
    LET dx == sd.x - target_x
        dy == sd.y
        dz == sd.z - target_z
    IN  ISqrt(dx * dx + dy * dy + dz * dz)

(* The telemetry the receive loop delivers in the training specification.   *)
Samples == { Tel(29000, 10000, 30000, 0, 0),   \* flying level, 1 m beside the target
             Tel(29000, 200, 30000, 80, 0) }    \* tipped over on the ground, on target

(* distance = np.sqrt(dx*dx + dy*dy + dz*dz), tabulated for the samples     *)
DistanceTable == [sd \in Samples |-> SqrtDistance(sd)]

Distance3D(sd) == IF sd \in Samples THEN DistanceTable[sd] ELSE SqrtDistance(sd)

Clamp(lo, hi, v) == IF v < lo THEN lo ELSE IF v > hi THEN hi ELSE v

ProgressReward(sd, prev) == IF prev # -1 THEN prev - Distance3D(sd) ELSE 0

LandingReward(sd) ==
    IF IsLanded(sd) THEN (IF HorizontalOnTarget(sd) THEN 20000 ELSE -20000) ELSE 0

CalculateReward(sd, prev) ==
    IF ~sd.present THEN 0
    ELSE Clamp(-100000, 100000,
               (-10) + (500000 \div (Distance3D(sd) + 1000))
               + ProgressReward(sd, prev) + LandingReward(sd))

(* calculate_reward leaves prev_distance_to_target untouched on None data   *)
RememberedDistance(sd, prev) == IF ~sd.present THEN prev ELSE Distance3D(sd)

------------------------------------------------------------------------------
(* Bounds of the model and the inputs it draws.                             *)

MaxMsgs == 2          \* state messages the receive loop processes
MaxAttempts == 2      \* episode heads train() runs
MaxResetTasks == 1    \* reset tasks alive at once

RunChoices == {<<1, 2>>, <<2, 2>>, <<2, 21>>}   \* <<episodes, steps_per_episode>>
ActionIds == {1}

MsgTypes == {"config", "control", "reset"}
ResetPositions == {"r_stop", "r_reset", "r_settle"}
TaskPositions == {"scheduled"} \cup ResetPositions
NoPair == [state |-> NoData, action |-> 0]
NoTransition == [state |-> NoData, action |-> 0, reward |-> 0,
                 next_state |-> NoData, done |-> FALSE]

Min(a, b) == IF a < b THEN a ELSE b

------------------------------------------------------------------------------
(* The program state as one record, so that the code a task runs between    *)
(* two suspension points composes as function application.                  *)

Cur == [training_state |-> training_state, reset_in_progress |-> reset_in_progress,
        training_mode |-> training_mode, drone_state |-> drone_state,
        current_state |-> current_state, current_action |-> current_action,
        episode_steps |-> episode_steps, max_episode_steps |-> max_episode_steps,
        episode_done_reason |-> episode_done_reason,
        prev_distance_to_target |-> prev_distance_to_target,
        episode_rewards |-> episode_rewards, best_reward |-> best_reward,
        memory_size |-> memory_size, memory_last |-> memory_last,
        step_counter |-> step_counter, pc |-> pc, ret |-> ret,
        episodes |-> episodes, steps_per_episode |-> steps_per_episode,
        current_episode |-> current_episode, episode_reward |-> episode_reward,
        elapsed |-> elapsed, tasks |-> tasks, sent |-> sent,
        delivered |-> delivered, attempts |-> attempts, ts_changes |-> ts_changes,
        memorize_state |-> memorize_state,
        calls_during_reset |-> calls_during_reset, last_reset_end |-> last_reset_end,
        saves |-> saves, head_delivered |-> head_delivered, counted |-> counted,
        selected |-> selected]

Commit(s) ==
    /\ training_state' = s.training_state
    /\ reset_in_progress' = s.reset_in_progress
    /\ training_mode' = s.training_mode
    /\ drone_state' = s.drone_state
    /\ current_state' = s.current_state
    /\ current_action' = s.current_action
    /\ episode_steps' = s.episode_steps
    /\ max_episode_steps' = s.max_episode_steps
    /\ episode_done_reason' = s.episode_done_reason
    /\ prev_distance_to_target' = s.prev_distance_to_target
    /\ episode_rewards' = s.episode_rewards
    /\ best_reward' = s.best_reward
    /\ memory_size' = s.memory_size
    /\ memory_last' = s.memory_last
    /\ step_counter' = s.step_counter
    /\ pc' = s.pc
    /\ ret' = s.ret
    /\ episodes' = s.episodes
    /\ steps_per_episode' = s.steps_per_episode
    /\ current_episode' = s.current_episode
    /\ episode_reward' = s.episode_reward
    /\ elapsed' = s.elapsed
    /\ tasks' = s.tasks
    /\ sent' = s.sent
    /\ delivered' = s.delivered
    /\ attempts' = s.attempts
    /\ ts_changes' = s.ts_changes
    /\ memorize_state' = s.memorize_state
    /\ calls_during_reset' = s.calls_during_reset
    /\ last_reset_end' = s.last_reset_end
    /\ saves' = s.saves
    /\ head_delivered' = s.head_delivered
    /\ counted' = s.counted
    /\ selected' = s.selected

(* self.training_state = v, with the change recorded                        *)
SetTrainingState(s, v) ==
    [s EXCEPT !.training_state = v,
              !.ts_changes = IF s.training_state # v
                             THEN @ \cup {<<s.training_state, v>>} ELSE @]

(* send_message(message): the message is handed to the transport session    *)
Send(s, type) == [s EXCEPT !.sent[type] = @ + 1]

(* asyncio.sleep(n tenths of a second) inside an episode; the episode's     *)
(* duration is only compared with 1.0 s, so the sum saturates at 10.        *)
Slept(s, tenths) == [s EXCEPT !.elapsed = Min(10, @ + tenths)]

(* agent.memorize: deque(maxlen=10000).append                               *)
Memorize(s, st, ac, rw, nx, dn) ==
    [s EXCEPT !.memory_size = Min(10000, @ + 1),
              !.memory_last = [state |-> st, action |-> ac, reward |-> rw,
                               next_state |-> nx, done |-> dn],
              !.memorize_state = s.training_state]

(* if len(self.agent.memory) > self.batch_size: self.agent.replay(...)      *)
ReplayIfReady(s) ==
    IF s.memory_size > batch_size /\ ~(s.memory_size < batch_size)
    THEN [s EXCEPT !.step_counter = @ + 1]
    ELSE s

------------------------------------------------------------------------------
(* reset_simulation                                                         *)

(* the guard left out                                                       *)
ResetNeverNoOp(s) == FALSE

(* if self.reset_in_progress: return                                        *)
ResetIsNoOp(s) == s.reset_in_progress

(* reset_in_progress = True; training_state = "RESETTING"; the stop command *)
ResetBegin(s) ==
    Send(SetTrainingState([s EXCEPT !.reset_in_progress = TRUE], "RESETTING"),
         "control")

(* after the stop command and sleep(0.2): the reset message                 *)
ResetSendReset(s) == Send(s, "reset")

(* after the reset message: the internal state is cleared                   *)
ResetClear(s) ==
    [s EXCEPT !.current_state = NoData, !.current_action = 0, !.episode_steps = 0]

(* finally: self.reset_in_progress = False                                  *)
ResetFinally(s) == [s EXCEPT !.reset_in_progress = FALSE]

(* sleep(3.0) is over: "Reset complete", then the finally block             *)
ResetReturned(s) == [ResetFinally(s) EXCEPT !.last_reset_end = "returned"]

(* the flag cleared at the end of the try block instead of in a finally    *)
ResetRaisedNoCleanup(s) == [s EXCEPT !.last_reset_end = "raised"]

(* an await inside the try block raised: the finally block still runs       *)
ResetRaised(s) == [ResetFinally(s) EXCEPT !.last_reset_end = "raised"]

(* a call of reset_simulation, up to its first suspension point             *)
ResetCalled(s) ==
    LET s0 == [s EXCEPT !.calls_during_reset =
                            IF s.reset_in_progress THEN @ + 1 ELSE @]
    IN  IF ResetIsNoOp(s0) THEN s0 ELSE ResetBegin(s0)

ResetsInFlight(s) ==
    s.tasks["r_stop"] + s.tasks["r_reset"] + s.tasks["r_settle"]
    + (IF s.pc \in ResetPositions THEN 1 ELSE 0)

LiveTasks(s) ==
    s.tasks["scheduled"] + s.tasks["r_stop"] + s.tasks["r_reset"] + s.tasks["r_settle"]

TaskMoved(s, from, to) ==
    [s EXCEPT !.tasks = [p \in TaskPositions |->
                            IF p = from THEN s.tasks[p] - 1
                            ELSE IF p = to THEN s.tasks[p] + 1
                            ELSE s.tasks[p]]]

------------------------------------------------------------------------------
(* train(): the code between two suspension points.  c is whether the       *)
(* episode's wall-clock duration exceeds 1.0 s when the sleeps alone do not *)
(* decide it, a is the action agent.act returns.                            *)

(* How an episode ends, where the model's clock and disk do not decide it:  *)
(* long is whether its wall-clock duration exceeds 1.0 s when the sleeps    *)
(* alone do not, saved is whether agent.save succeeds.                      *)
EpisodeEnds == [long : BOOLEAN, saved : BOOLEAN]
NoEnd == [long |-> FALSE, saved |-> TRUE]

(* episode_duration > 1.0 *)
EpisodeCounted(s, c) == IF s.elapsed >= 10 THEN TRUE ELSE c.long

(* lines 1076-1080: except Exception around the whole episode loop          *)
TrainCaught(s) == [s EXCEPT !.pc = "returned", !.ret = "error"]

(* lines 1047-1053: the reward is appended, then agent.save raises          *)
CheckpointFailed(s) ==
    TrainCaught([s EXCEPT !.episode_rewards = Append(@, s.episode_reward),
                          !.counted = @ + 1])

(* the reward appended whatever the episode's duration                      *)
BookkeepingCountsShort(s, c) ==
    IF c.saved
    THEN [s EXCEPT !.episode_rewards = Append(@, s.episode_reward),
                   !.best_reward = IF s.episode_reward > @ THEN s.episode_reward ELSE @,
                   !.saves = @ + (IF s.episode_reward > s.best_reward THEN 3 ELSE 2),
                   !.current_episode = @ + 1,
                   !.counted = @ + (IF EpisodeCounted(s, c) THEN 1 ELSE 0),
                   !.pc = "cooldown"]
    ELSE CheckpointFailed(s)

(* lines 1022-1071, up to the cooling sleep                                 *)
Bookkeeping(s, c) ==
    IF EpisodeCounted(s, c)
    THEN IF c.saved
         THEN [s EXCEPT !.episode_rewards = Append(@, s.episode_reward),
                        !.best_reward = IF s.episode_reward > @ THEN s.episode_reward ELSE @,
                        !.saves = @ + (IF s.episode_reward > s.best_reward THEN 3 ELSE 2),
                        !.current_episode = @ + 1,
                        !.counted = @ + 1,
                        !.pc = "cooldown"]
         ELSE CheckpointFailed(s)
    ELSE [s EXCEPT !.pc = "cooldown"]

(* the episode goes on whether or not there is telemetry                    *)
WaitCheckGoesOn(s) == [s EXCEPT !.pc = "stabilize"]

(* lines 907-930: the wait for telemetry, up to its first sleep             *)
WaitCheck(s) ==
    IF s.drone_state.present
    THEN [s EXCEPT !.prev_distance_to_target = Distance3D(s.drone_state),
                   !.pc = "stabilize"]
    ELSE [s EXCEPT !.pc = "wait"]

Continue(s, cont, c) ==
    IF cont = "wait" THEN WaitCheck([s EXCEPT !.ret = "-"])
    ELSE Bookkeeping([s EXCEPT !.ret = "-"], c)

(* await self.reset_simulation() called by train()                          *)
TrainCallReset(s, cont, c) ==
    IF ResetIsNoOp(s) THEN Continue(ResetCalled(s), cont, c)
    ELSE [ResetCalled(s) EXCEPT !.pc = "r_stop", !.ret = cont]

(* the step bound off by one                                                *)
LoopContinuesOffByOne(s) ==
    s.training_state = "EPISODE_RUNNING" /\ s.episode_steps <= s.steps_per_episode

(* while self.training_state == "EPISODE_RUNNING" and                       *)
(*       self.episode_steps < steps_per_episode                             *)
LoopContinues(s) ==
    s.training_state = "EPISODE_RUNNING" /\ s.episode_steps < s.steps_per_episode

(* the final experience stored whether or not a pair exists                 *)
HasPriorAlways(s) == TRUE

(* self.current_state is not None and self.current_action is not None       *)
HasPrior(s) == s.current_state.present /\ s.current_action # 0

(* lines 954-979: the terminal branch of a step                             *)
TerminalStep(s, c) ==
    LET rw == CalculateReward(s.drone_state, s.prev_distance_to_target)
        s1 == [s EXCEPT !.prev_distance_to_target = RememberedDistance(s.drone_state, @),
                        !.episode_reward = @ + rw]
        s2 == IF HasPrior(s1)
              THEN Memorize(s1, s1.current_state, s1.current_action, rw,
                            s1.drone_state, TRUE)
              ELSE s1
    IN  TrainCallReset(SetTrainingState(s2, "IDLE"), "episode_end", c)

(* lines 981-1011: a non-terminal step, up to the send of the command       *)
ControlStep(s, a) ==
    LET rw == CalculateReward(s.drone_state, s.prev_distance_to_target)
        s1 == [s EXCEPT !.prev_distance_to_target = RememberedDistance(s.drone_state, @),
                        !.episode_reward = @ + rw]
        s2 == IF HasPrior(s1)
              THEN Memorize(s1, s1.current_state, s1.current_action, rw,
                            s1.drone_state, FALSE)
              ELSE s1
    IN  Send([s2 EXCEPT !.current_state = s.drone_state, !.current_action = a,
                        !.selected = [state |-> s.drone_state, action |-> a],
                        !.pc = "step_send"], "control")

(* lines 936-1020: one pass of the step loop from its condition             *)
StepLoop(s, c, a) ==
    IF LoopContinues(s)
    THEN LET s1 == [s EXCEPT !.episode_steps = @ + 1]
         IN  IF ~s1.drone_state.present
             THEN Slept([s1 EXCEPT !.pc = "step_sleep"], 1)
             ELSE LET v == IsEpisodeDone(s1.training_state, s1.drone_state,
                                         s1.episode_steps, s1.max_episode_steps,
                                         s1.episode_done_reason)
                      s2 == [s1 EXCEPT !.episode_done_reason = v.reason]
                  IN  IF v.done THEN TerminalStep(s2, c) ELSE ControlStep(s2, a)
    ELSE Bookkeeping(s, c)

(* lines 894-905: the episode loop's condition and the head of an episode   *)
EpisodeLoop(s) ==
    IF s.current_episode < s.episodes
    THEN LET s1 == [s EXCEPT !.episode_steps = 0,
                             !.episode_done_reason = "none",
                             !.episode_reward = 0,
                             !.prev_distance_to_target = -1,
                             !.attempts = Min(MaxAttempts, @ + 1),
                             !.sent = [t \in MsgTypes |-> 0],
                             !.head_delivered = s.delivered,
                             !.selected = NoPair]
         IN  IF s1.reset_in_progress THEN WaitCheck(s1)
             ELSE TrainCallReset(s1, "wait", NoEnd)
    ELSE [s EXCEPT !.pc = "returned"]

------------------------------------------------------------------------------
(* process_state, called by the receive loop for every state message        *)

(* only the training-mode check                                             *)
ProcessGateModeOnly(s) == s.training_mode

(* if self.training_state != "EPISODE_RUNNING": return                      *)
ProcessGate(s) == s.training_mode /\ s.training_state = "EPISODE_RUNNING"

(* lines 536-544: choose an action, remember the pair, send the command    *)
ProcessAct(s, data, a) ==
    Send([s EXCEPT !.current_state = data, !.current_action = a], "control")

(* asyncio.create_task(self.reset_simulation())                             *)
TaskSpawned(s) == [s EXCEPT !.tasks["scheduled"] = @ + 1]

ProcessState(s, data, a) ==
    IF ~ProcessGate(s) THEN s
    ELSE IF s.current_state.present
    THEN LET rw == CalculateReward(data, s.prev_distance_to_target)
             v == IsEpisodeDone(s.training_state, data, s.episode_steps,
                                s.max_episode_steps, s.episode_done_reason)
             s1 == [s EXCEPT !.prev_distance_to_target = RememberedDistance(data, @),
                             !.episode_done_reason = v.reason]
             s2 == ReplayIfReady(Memorize(s1, s.current_state, s.current_action,
                                          rw, data, v.done))
         IN  IF v.done
             THEN TaskSpawned([s2 EXCEPT !.current_state = NoData,
                                         !.current_action = 0])
             ELSE ProcessAct(s2, data, a)
    ELSE ProcessAct(s, data, a)

(* the slot keeps the sample it already holds                               *)
ReceiveStateKeepsFirst(s, data, a) ==
    LET s1 == [s EXCEPT !.drone_state = IF @.present THEN @ ELSE data,
                        !.delivered = @ + 1]
    IN  IF s1.training_mode THEN ProcessState(s1, data, a) ELSE s1

(* lines 460-470: the receive loop's handling of one state message          *)
ReceiveState(s, data, a) ==
    LET s1 == [s EXCEPT !.drone_state = data, !.delivered = @ + 1]
    IN  IF s1.training_mode THEN ProcessState(s1, data, a) ELSE s1

------------------------------------------------------------------------------
(* Actions of the training specification                                    *)

TrainBegin ==
    /\ pc = "start"
    /\ Commit(Send([Cur EXCEPT !.episode_rewards = <<>>,
                               !.training_mode = TRUE,
                               !.max_episode_steps = steps_per_episode,
                               !.current_episode = 0,
                               !.pc = "cfg_sleep"], "config"))
    /\ UNCHANGED <<doneVars, connVars, scriptVars, restVars>>

HeadAllowed == current_episode < episodes => attempts < MaxAttempts

TrainEpisodeLoop ==
    /\ pc \in {"cfg_sleep", "cooldown"}
    /\ HeadAllowed
    /\ Commit(EpisodeLoop(Cur))
    /\ UNCHANGED <<doneVars, connVars, scriptVars, restVars>>

TrainWaitGotState ==
    /\ pc = "wait"
    /\ drone_state.present
    /\ Commit(WaitCheck(Cur))
    /\ UNCHANGED <<doneVars, connVars, scriptVars, restVars>>

(* the 5 s are over and the slot is still empty: continue                   *)
TrainWaitTimeout ==
    /\ pc = "wait"
    /\ ~drone_state.present
    /\ HeadAllowed
    /\ Commit(EpisodeLoop(Cur))
    /\ UNCHANGED <<doneVars, connVars, scriptVars, restVars>>

TrainStabilized ==
    /\ pc = "stabilize"
    /\ \E c \in EpisodeEnds, a \in ActionIds :
          Commit(StepLoop([SetTrainingState(Cur, "EPISODE_RUNNING")
                              EXCEPT !.elapsed = 0], c, a))
    /\ UNCHANGED <<doneVars, connVars, scriptVars, restVars>>

TrainSendDone ==
    /\ pc = "step_send"
    /\ Commit(Slept([ReplayIfReady(Cur) EXCEPT !.pc = "step_sleep"], 1))
    /\ UNCHANGED <<doneVars, connVars, scriptVars, restVars>>

TrainStep ==
    /\ pc = "step_sleep"
    /\ \E c \in EpisodeEnds, a \in ActionIds : Commit(StepLoop(Cur, c, a))
    /\ UNCHANGED <<doneVars, connVars, scriptVars, restVars>>

TrainResetStopSent ==
    /\ pc = "r_stop"
    /\ Commit(Slept([ResetSendReset(Cur) EXCEPT !.pc = "r_reset"], 2))
    /\ UNCHANGED <<doneVars, connVars, scriptVars, restVars>>

TrainResetSent ==
    /\ pc = "r_reset"
    /\ Commit([ResetClear(Cur) EXCEPT !.pc = "r_settle"])
    /\ UNCHANGED <<doneVars, connVars, scriptVars, restVars>>

TrainResetDone ==
    /\ pc = "r_settle"
    /\ \E c \in EpisodeEnds :
          Commit(Continue(Slept(ResetReturned([Cur EXCEPT !.pc = "-"]), 30), ret, c))
    /\ UNCHANGED <<doneVars, connVars, scriptVars, restVars>>

(* an await inside reset_simulation raises in the train task (the task is   *)
(* cancelled): the finally block runs and train() ends                      *)
TrainResetRaise ==
    /\ pc \in ResetPositions
    /\ Commit(ResetRaised([Cur EXCEPT !.pc = "cancelled", !.ret = "-"]))
    /\ UNCHANGED <<doneVars, connVars, scriptVars, restVars>>

TaskStart ==
    /\ tasks["scheduled"] > 0
    /\ Commit(IF ResetIsNoOp(Cur)
              THEN [ResetCalled(Cur) EXCEPT !.tasks["scheduled"] = @ - 1]
              ELSE TaskMoved(ResetCalled(Cur), "scheduled", "r_stop"))
    /\ UNCHANGED <<doneVars, connVars, scriptVars, restVars>>

TaskResetStopSent ==
    /\ tasks["r_stop"] > 0
    /\ Commit(TaskMoved(ResetSendReset(Cur), "r_stop", "r_reset"))
    /\ UNCHANGED <<doneVars, connVars, scriptVars, restVars>>

TaskResetSent ==
    /\ tasks["r_reset"] > 0
    /\ Commit(TaskMoved(ResetClear(Cur), "r_reset", "r_settle"))
    /\ UNCHANGED <<doneVars, connVars, scriptVars, restVars>>

TaskResetDone ==
    /\ tasks["r_settle"] > 0
    /\ Commit([ResetReturned(Cur) EXCEPT !.tasks["r_settle"] = @ - 1])
    /\ UNCHANGED <<doneVars, connVars, scriptVars, restVars>>

TaskResetRaise ==
    /\ \E p \in ResetPositions :
          /\ tasks[p] > 0
          /\ Commit([ResetRaised(Cur) EXCEPT !.tasks[p] = @ - 1])
    /\ UNCHANGED <<doneVars, connVars, scriptVars, restVars>>

Deliver ==
    /\ delivered < MaxMsgs
    /\ pc \notin {"returned", "cancelled"}
    /\ \E data \in Samples, a \in ActionIds :
          LET s == ReceiveState(Cur, data, a)
          IN  /\ LiveTasks(s) <= MaxResetTasks
              /\ Commit(s)
    /\ UNCHANGED <<doneVars, connVars, scriptVars, restVars>>

TrainInit ==
    /\ training_state = "IDLE"
    /\ reset_in_progress = FALSE
    /\ training_mode = FALSE
    /\ drone_state = NoData
    /\ current_state = NoData
    /\ current_action = 0
    /\ episode_steps = 0
    /\ max_episode_steps = DefaultMaxEpisodeSteps
    /\ episode_done_reason = "none"
    /\ prev_distance_to_target = -1
    /\ episode_rewards = <<>>
    /\ best_reward = NegInf
    /\ memory_size = 0
    /\ memory_last = NoTransition
    /\ step_counter = 0
    /\ pc = "start"
    /\ ret = "-"
    /\ current_episode = 0
    /\ episode_reward = 0
    /\ elapsed = 0
    /\ tasks = [p \in TaskPositions |-> 0]
    /\ sent = [t \in MsgTypes |-> 0]
    /\ delivered = 0
    /\ attempts = 0
    /\ ts_changes = {}
    /\ memorize_state = ""
    /\ calls_during_reset = 0
    /\ last_reset_end = "none"
    /\ saves = 0
    /\ head_delivered = 0
    /\ counted = 0
    /\ selected = NoPair

DoneUnused ==
    /\ d_ts = "IDLE" /\ d_sd = NoData /\ d_steps = 0 /\ d_max = 0
    /\ d_reason = "none" /\ d_out = "unused"

TrainUnused ==
    /\ TrainInit
    /\ episodes = 0
    /\ steps_per_episode = 0

ConnUnused ==
    /\ connected = FALSE /\ reconnect_attempts = 0
    /\ max_reconnect_attempts = DefaultMaxReconnectAttempts
    /\ websocket = 0 /\ c_pc = "unused" /\ c_script = <<>> /\ c_result = "none"
    /\ c_calls = 0 /\ c_opened = 0 /\ c_depth = 0

ScriptUnused == script_start = 0

SendUnused == s_stack = <<>> /\ s_tries = <<>> /\ s_gaveup = 0 /\ s_dials = 0

RecvUnused ==
    /\ r_pc = "unused" /\ r_inbox = <<>> /\ r_read = 0 /\ r_kind = "-"
    /\ r_log = <<>> /\ r_target = "-" /\ r_closes = 0

MemoUnused == a_memory = <<>> /\ a_inserted = <<>>

ReplayUnused ==
    /\ a_len = 0 /\ a_epsilon = 0 /\ a_epsilon_decay = 0
    /\ a_step_counter = 0 /\ a_model = 0 /\ a_target = 0

AgentUnused == MemoUnused /\ ReplayUnused

FeatUnused == f_in = NoData /\ f_out = <<>>

CkptUnused ==
    /\ k_path = <<>> /\ k_disk = {} /\ k_model = 0 /\ k_target = 0
    /\ k_saved = 0 /\ k_pc = "unused"

RateUnused == q_now = 0 /\ q_last = 0 /\ q_connected = FALSE /\ q_log = <<>>

NoBroadcast == [at |-> "idle", sender |-> 0, n |-> 0, size |-> 0, todo |-> {},
                to |-> 0, stayed |-> {}]

RelayUnused ==
    /\ connected_clients = {} /\ relay_drone_state = 0 /\ received = <<>>
    /\ forwarded = {} /\ bcast = NoBroadcast /\ joins = 0

PureUnused == AgentUnused /\ FeatUnused /\ CkptUnused /\ RateUnused /\ RelayUnused

RestUnused == SendUnused /\ RecvUnused /\ PureUnused

ProgUnused ==
    /\ TrainUnused /\ DoneUnused /\ ConnUnused /\ ScriptUnused
    /\ SendUnused /\ RecvUnused

Init ==
    /\ TrainInit
    /\ \E run \in RunChoices : episodes = run[1] /\ steps_per_episode = run[2]
    /\ DoneUnused
    /\ ConnUnused
    /\ ScriptUnused
    /\ RestUnused

Next ==
    \/ TrainBegin
    \/ TrainEpisodeLoop
    \/ TrainWaitGotState
    \/ TrainWaitTimeout
    \/ TrainStabilized
    \/ TrainSendDone
    \/ TrainStep
    \/ TrainResetStopSent
    \/ TrainResetSent
    \/ TrainResetDone
    \/ TrainResetRaise
    \/ TaskStart
    \/ TaskResetStopSent
    \/ TaskResetSent
    \/ TaskResetDone
    \/ TaskResetRaise
    \/ Deliver

Spec == Init /\ [][Next]_vars

------------------------------------------------------------------------------
(* Properties of the training specification                                 *)

LegalChanges == { <<"IDLE", "RESETTING">>,
                  <<"RESETTING", "EPISODE_RUNNING">>,
                  <<"EPISODE_RUNNING", "IDLE">> }

(* C1: every change of training_state during train() is IDLE->RESETTING,    *)
(* RESETTING->EPISODE_RUNNING or EPISODE_RUNNING->IDLE.                     *)
C1_OnlyLegalChanges == ts_changes \subseteq LegalChanges

StepLoopExited ==
    \/ pc = "cooldown"
    \/ pc \in ResetPositions /\ ret = "episode_end"

(* C2: once the step loop of an episode has exited, training_state is no    *)
(* longer EPISODE_RUNNING, for every steps_per_episode >= 1.                *)
C2_LoopExitLeavesRunning == StepLoopExited => training_state # "EPISODE_RUNNING"

AtMostOneResetInFlight == ResetsInFlight(Cur) <= 1

(* the task that made the call is the only thing that moved                 *)
NoOpCallEffects ==
    /\ reset_in_progress /\ reset_in_progress'
    /\ sent' = sent
    /\ current_state' = current_state
    /\ current_action' = current_action
    /\ ResetsInFlight(Cur)' = ResetsInFlight(Cur)
    /\ \/ pc' = pc /\ training_state' = training_state
                   /\ episode_steps' = episode_steps
       \/ pc' # pc /\ training_state' = "IDLE"
                   /\ episode_steps' = episode_steps + 1

(* C3: a reset_simulation call made while a reset is in progress sends      *)
(* nothing and leaves training_state, current_state, current_action and     *)
(* episode_steps as the caller had them (train() has just counted the step  *)
(* and set IDLE); at most one reset is in flight at any time.               *)
C3_ConcurrentResetIsNoOp ==
    /\ []AtMostOneResetInFlight
    /\ [][calls_during_reset' # calls_during_reset => NoOpCallEffects]_vars

C3_Witness ==
    /\ calls_during_reset > 0
    /\ ResetsInFlight(Cur) = 1
    /\ pc = "cooldown"
    /\ training_state = "IDLE"

(* C4: when no execution of reset_simulation is under way, whether the last *)
(* one returned or raised, reset_in_progress is false.                      *)
C4_ResetFlagCleared == ResetsInFlight(Cur) = 0 => ~reset_in_progress

C4_Witness ==
    /\ last_reset_end = "raised"
    /\ ResetsInFlight(Cur) = 0
    /\ ~reset_in_progress
    /\ pc # "cancelled"

ArrivalOutsideEpisode ==
    delivered' # delivered /\ training_state # "EPISODE_RUNNING"

(* C5: agent.memorize is only ever called while training_state is           *)
(* EPISODE_RUNNING, and a state message that arrives while it is IDLE or    *)
(* RESETTING changes neither the replay memory, nor the current (state,     *)
(* action) pair, nor the agent.                                             *)
C5_TransitionsOnlyWhileRunning ==
    /\ [](memorize_state \in {"", "EPISODE_RUNNING"})
    /\ [][ArrivalOutsideEpisode =>
            UNCHANGED <<memory_size, memory_last, current_state, current_action,
                        step_counter>>]_vars

C5_Witness ==
    /\ pc = "wait"
    /\ training_mode
    /\ training_state = "RESETTING"
    /\ drone_state.present
    /\ memory_size = 0
    /\ ~current_state.present

(* C6: episode_steps never exceeds the configured maximum steps per episode *)
C6_StepsWithinMaximum == episode_steps <= max_episode_steps

C6_Witness ==
    /\ training_mode
    /\ episode_steps = max_episode_steps
    /\ episode_done_reason = "max_steps"

------------------------------------------------------------------------------
(* is_episode_done called on its own, on inputs around every threshold.     *)

DoneAltitudes == {0, 499, 500, 10000}
DoneOffsets == { <<0, 0>>, <<2499, 0>>, <<2500, 0>>, <<1767, 1767>>,
                 <<1768, 1768>>, <<-1000, 0>> }
DonePitches == {0, 75, 76, -76}
DoneRolls == {0, -76}
DoneSteps == {0, 19, 20, 21, 50}
DoneMaxSteps == {21, 50}

DoneData ==
    {NoData} \cup
    { Tel(target_x + o[1], y, target_z + o[2], p, r) :
        o \in DoneOffsets, y \in DoneAltitudes, p \in DonePitches, r \in DoneRolls }

DoneInit ==
    /\ d_ts \in TrainingStates
    /\ d_sd \in DoneData
    /\ d_steps \in DoneSteps
    /\ d_max \in DoneMaxSteps
    /\ d_reason = "none"
    /\ d_out = "pending"
    /\ TrainUnused
    /\ ConnUnused
    /\ ScriptUnused
    /\ RestUnused

DoneCall ==
    /\ d_out = "pending"
    /\ LET v == IsEpisodeDone(d_ts, d_sd, d_steps, d_max, d_reason)
       IN  /\ d_out' = IF v.done THEN "true" ELSE "false"
           /\ d_reason' = v.reason
    /\ UNCHANGED <<d_ts, d_sd, d_steps, d_max, trainVars, connVars, scriptVars, restVars>>

DoneNext == DoneCall

SpecDone == DoneInit /\ [][DoneNext]_vars

(* the horizontal distance to the target, compared on the squares           *)
DoneInsideRadius ==
    LET dx == d_sd.x - 30000
        dz == d_sd.z - 30000
    IN  dx * dx + dz * dz < 2500 * 2500

DoneLowAltitude == d_sd.present /\ d_sd.y < 500
DoneTilted == d_sd.pitch > 75 \/ d_sd.pitch < -75 \/ d_sd.roll > 75 \/ d_sd.roll < -75
DoneLandingVerdict ==
    /\ d_out = "true"
    /\ d_reason = IF DoneInsideRadius THEN "landed_on_target" ELSE "landed_outside"

(* C8 as stated: for all telemetry with position.y below the minimum        *)
(* altitude is_episode_done returns terminal, 'landed outside' when the     *)
(* horizontal distance is at least target_radius and 'landed on target'     *)
(* when it is below.                                                        *)
C8_LowAltitudeIsLanding ==
    (d_out # "pending" /\ DoneLowAltitude) => DoneLandingVerdict

(* C8 amended: the same, for calls made while an episode is running, with   *)
(* episode_steps beyond the grace period and no tilt beyond max_tilt.       *)
C8_LowAltitudeIsLandingAfterGrace ==
    (d_out # "pending" /\ DoneLowAltitude /\ d_ts = "EPISODE_RUNNING"
       /\ d_steps > 20 /\ ~DoneTilted) => DoneLandingVerdict

C8_Witness ==
    /\ d_out = "true"
    /\ DoneLowAltitude
    /\ d_ts = "EPISODE_RUNNING"
    /\ d_steps = 21
    /\ ~DoneTilted
    /\ ~DoneInsideRadius
    /\ d_sd.x = 32500
    /\ d_reason = "landed_outside"

(* C9: in a running episode the verdict's reason is that of the first       *)
(* condition that holds, in the order missing telemetry, tilt, landing,     *)
(* step limit (tilt and landing counting once the grace period is over).    *)
C9_FirstConditionWins ==
    (d_out # "pending" /\ d_ts = "EPISODE_RUNNING") =>
        /\ ~d_sd.present => (d_out = "true" /\ d_reason = "no_state")
        /\ (d_sd.present /\ d_steps > 20 /\ DoneTilted)
              => (d_out = "true" /\ d_reason = "tilt")
        /\ (d_sd.present /\ d_steps > 20 /\ ~DoneTilted /\ DoneLowAltitude)
              => DoneLandingVerdict
        /\ (d_sd.present /\ d_steps > 20 /\ ~DoneTilted /\ ~DoneLowAltitude
              /\ d_steps >= d_max)
              => (d_out = "true" /\ d_reason = "max_steps")

C9_Witness ==
    /\ d_out = "true"
    /\ d_ts = "EPISODE_RUNNING"
    /\ DoneTilted /\ DoneLowAltitude
    /\ d_steps = 50 /\ d_max = 50
    /\ d_reason = "tilt"

------------------------------------------------------------------------------
(* reconnect(), with the enable_external_control() and send_message() it    *)
(* runs after a successful connection.  A caller repeats reconnect() while  *)
(* it returns False.  c_script logs the outcome of every connection         *)
(* attempt, c_depth counts the reconnect() frames nested under the          *)
(* caller's one (send_message calls reconnect() when its send fails).       *)

MaxConnects == 5      \* connection attempts over one run
CeilingChoices == {1, 2, DefaultMaxReconnectAttempts}
ConnectOutcomes == {"ok", "refused", "timeout"}
SendOutcomes == {"sent", "closed", "error"}

ConnInit ==
    /\ connected = FALSE
    /\ reconnect_attempts = 0
    /\ max_reconnect_attempts \in CeilingChoices
    /\ websocket = 0
    /\ c_pc = "idle"
    /\ c_script = <<>>
    /\ c_result = "none"
    /\ c_calls = 0
    /\ c_opened = 0
    /\ c_depth = 0
    /\ TrainUnused
    /\ DoneUnused
    /\ ScriptUnused
    /\ RestUnused

(* the counter is left as it is on a successful connection                  *)
AttemptsKeptOnSuccess(att) == att

(* > in place of >= *)
ReconnectGivesUpLate(att, ceiling) == att > ceiling

(* if self.reconnect_attempts >= self.max_reconnect_attempts: return False   *)
ReconnectGivesUp(att, ceiling) == att >= ceiling
AttemptsAfterSuccess(att) == 0

(* every enclosing frame returns True once a connection has been made       *)
ReconnectUnwound ==
    /\ c_pc' = "returned"
    /\ c_result' = "true"
    /\ c_depth' = 0

(* the caller invokes reconnect(): up to the await on websockets.connect    *)
ConnReconnectCall ==
    /\ c_pc = "idle"
    /\ c_calls' = c_calls + 1
    /\ IF ReconnectGivesUp(reconnect_attempts, max_reconnect_attempts)
         THEN /\ c_pc' = "gave_up"
              /\ c_result' = "false"
              /\ UNCHANGED reconnect_attempts
         ELSE /\ c_pc' = "connecting"
              /\ reconnect_attempts' = reconnect_attempts + 1
              /\ UNCHANGED c_result
    /\ UNCHANGED <<connected, max_reconnect_attempts, websocket, c_script,
                   c_opened, c_depth, trainVars, doneVars, scriptVars, restVars>>

(* websockets.connect completes, raises, or wait_for times out              *)
ConnConnectDone ==
    /\ c_pc = "connecting"
    /\ c_opened < MaxConnects
    /\ \E o \in ConnectOutcomes :
         /\ c_script' = Append(c_script, o)
         /\ c_opened' = c_opened + 1
         /\ IF o = "ok"
              THEN /\ websocket' = c_opened + 1
                   /\ connected' = TRUE
                   /\ reconnect_attempts' = AttemptsAfterSuccess(reconnect_attempts)
                   /\ c_pc' = "enabling"
                   /\ UNCHANGED <<c_result, c_depth>>
              ELSE /\ UNCHANGED <<websocket, connected, reconnect_attempts>>
                   /\ IF c_depth = 0
                        THEN /\ c_pc' = "idle"
                             /\ c_result' = "false"
                             /\ UNCHANGED c_depth
                        ELSE ReconnectUnwound
    /\ UNCHANGED <<max_reconnect_attempts, c_calls, trainVars, doneVars, scriptVars, restVars>>

(* enable_external_control(): send_message's send of the control message    *)
ConnEnableSend ==
    /\ c_pc = "enabling"
    /\ \E o \in SendOutcomes :
         IF o = "sent"
           THEN /\ ReconnectUnwound
                /\ UNCHANGED <<connected, reconnect_attempts>>
           ELSE /\ connected' = FALSE
                /\ IF ReconnectGivesUp(reconnect_attempts, max_reconnect_attempts)
                     THEN /\ ReconnectUnwound
                          /\ UNCHANGED reconnect_attempts
                     ELSE /\ reconnect_attempts' = reconnect_attempts + 1
                          /\ c_pc' = "connecting"
                          /\ c_depth' = c_depth + 1
                          /\ UNCHANGED c_result
    /\ UNCHANGED <<max_reconnect_attempts, websocket, c_script, c_calls,
                   c_opened, trainVars, doneVars, scriptVars, restVars>>

ConnNext ==
    \/ ConnReconnectCall
    \/ ConnConnectDone
    \/ ConnEnableSend

SpecReconnect == ConnInit /\ [][ConnNext]_vars

(* the attempts so far: k failures and then one success                     *)
FailuresThenSuccess(k) ==
    /\ Len(c_script) = k + 1
    /\ c_script[k + 1] = "ok"
    /\ \A i \in 1..k : c_script[i] # "ok"

(* C10: after k < max_reconnect_attempts consecutive failed attempts and    *)
(* then a successful one, reconnect() has returned true at call k+1 and     *)
(* reconnect_attempts is 0.                                                 *)
C10_ReconnectSucceedsAndResets ==
    \A k \in 0..(max_reconnect_attempts - 1) :
        (c_pc = "returned" /\ FailuresThenSuccess(k)) =>
            /\ c_result = "true"
            /\ c_calls = k + 1
            /\ reconnect_attempts = 0

C10_Witness ==
    /\ c_pc = "returned"
    /\ max_reconnect_attempts = 5
    /\ c_script = <<"refused", "timeout", "refused", "ok">>
    /\ c_calls = 4
    /\ c_result = "true"
    /\ reconnect_attempts = 0
    /\ connected

------------------------------------------------------------------------------
(* One episode on scripted telemetry: the altitude falls linearly from 10 m *)
(* at the first sample to 0.2 m at the sample of step 50, 1 m beside the    *)
(* target.  The receive loop takes the sample of step k before train()      *)
(* runs its k-th pass of the step loop, and the sample of step k+1 only     *)
(* after it.                                                                *)

ScriptStarts == {0, 1}
ScriptSteps == 0..50
ScriptBudgets == {60, DefaultMaxEpisodeSteps}

ScriptSample(k) ==
    Tel(target_x - 1000,
        10000 - ((9800 * (k - script_start)) \div (50 - script_start)),
        target_z, 0, 0)

(* the step index of the latest sample taken, script_start - 1 before any   *)
ScriptAt == script_start + delivered - 1

ScriptInit ==
    /\ TrainInit
    /\ episodes = 1
    /\ steps_per_episode \in ScriptBudgets
    /\ script_start \in ScriptStarts
    /\ DoneUnused
    /\ ConnUnused
    /\ RestUnused

ScriptReceive ==
    /\ ScriptAt + 1 \in ScriptSteps
    /\ ScriptAt + 1 <= episode_steps + 1
    /\ pc \notin {"returned", "cancelled"}
    /\ \E a \in ActionIds : Commit(ReceiveState(Cur, ScriptSample(ScriptAt + 1), a))
    /\ UNCHANGED <<doneVars, connVars, scriptVars, restVars>>

ScriptStabilized ==
    /\ ScriptAt = 1
    /\ TrainStabilized

ScriptStep ==
    /\ LoopContinues(Cur) => ScriptAt = episode_steps + 1
    /\ TrainStep

ScriptNext ==
    \/ TrainBegin
    \/ TrainEpisodeLoop
    \/ TrainWaitGotState
    \/ ScriptStabilized
    \/ TrainSendDone
    \/ ScriptStep
    \/ TrainResetStopSent
    \/ TrainResetSent
    \/ TrainResetDone
    \/ TaskStart
    \/ TaskResetStopSent
    \/ TaskResetSent
    \/ TaskResetDone
    \/ ScriptReceive

SpecScript == ScriptInit /\ [][ScriptNext]_vars

LeavesRunning ==
    training_state = "EPISODE_RUNNING" /\ training_state' # "EPISODE_RUNNING"

OneRewardEntry == pc = "returned" => Len(episode_rewards) = 1

(* C7 as stated: on the scripted descent the orchestrator leaves            *)
(* EPISODE_RUNNING at step 50 with the reason 'landed on target', and the   *)
(* reward history has exactly one entry when train() returns.               *)
C7_LandsAtStep50 ==
    /\ [][LeavesRunning => (episode_steps' = 50
                            /\ episode_done_reason' = "landed_on_target")]_vars
    /\ []OneRewardEntry

(* C7 amended: the orchestrator leaves EPISODE_RUNNING with the reason      *)
(* 'landed on target' on the sample of step 49, the first one under         *)
(* min_altitude: by train()'s verdict at step 49, or, with 48 steps         *)
(* counted, by the reset that process_state scheduled on that sample; and   *)
(* the reward history has exactly one entry when train() returns.           *)
C7_LandsAtStep49 ==
    /\ [][LeavesRunning =>
            /\ episode_done_reason' = "landed_on_target"
            /\ ScriptAt = 49
            /\ drone_state.y < 500
            /\ \/ episode_steps' = 49 /\ <<"EPISODE_RUNNING", "IDLE">> \in ts_changes'
               \/ episode_steps' = 48 /\ training_state' = "RESETTING"]_vars
    /\ []OneRewardEntry

C7_Witness ==
    /\ pc = "returned"
    /\ Len(episode_rewards) = 1
    /\ episode_done_reason = "landed_on_target"
    /\ <<"EPISODE_RUNNING", "IDLE">> \in ts_changes
    /\ delivered > 40

------------------------------------------------------------------------------
(* connect(), send_message() and reconnect() with the calls they make of    *)
(* one another: reconnect() runs enable_external_control(), which runs      *)
(* send_message(), which runs reconnect() when its send fails.  The frames  *)
(* under way are kept on s_stack; a frame waits at websockets.connect       *)
(* ("connecting") or at websocket.send ("sending", "resending"), or for the *)
(* call above it to return.                                                 *)

MaxOps == 3           \* calls the owner of the session makes
MaxDials == 3         \* connection attempts of the session's calls

ConfigMsg == [type |-> "config", flag |-> TRUE, n |-> 0]
EnableMsg == [type |-> "control_enable", flag |-> TRUE, n |-> 0]
CommandMsg(n) == [type |-> "control", flag |-> FALSE, n |-> n]
NoMsg == [type |-> "-", flag |-> FALSE, n |-> 0]

(* the "type" a message carries on the wire: lines 381, 432 and 1135        *)
WireType(m) == IF m.type = "control_enable" THEN "control" ELSE m.type

(* the keys of the message dictionary: lines 380-387, 431-435 and 1134-1137 *)
WireKeys(m) ==
    IF m.type = "control"
    THEN {"type", "thrust", "pitch", "roll", "yaw", "timestamp"}
    ELSE IF m.type = "control_enable" THEN {"type", "action"}
    ELSE IF m.type = "config" THEN {"type", "externalControl", "timestamp"}
    ELSE {}

Frame(fn, at, msg) == [fn |-> fn, at |-> at, msg |-> msg]

Session == [connected |-> connected, attempts |-> reconnect_attempts,
            ceiling |-> max_reconnect_attempts, websocket |-> websocket,
            opened |-> c_opened, script |-> c_script, result |-> c_result,
            stack |-> s_stack, tries |-> s_tries, gaveup |-> s_gaveup,
            dials |-> s_dials]

SessionCommit(k) ==
    /\ connected' = k.connected
    /\ reconnect_attempts' = k.attempts
    /\ max_reconnect_attempts' = k.ceiling
    /\ websocket' = k.websocket
    /\ c_opened' = k.opened
    /\ c_script' = k.script
    /\ c_result' = k.result
    /\ s_stack' = k.stack
    /\ s_tries' = k.tries
    /\ s_gaveup' = k.gaveup
    /\ s_dials' = k.dials

Top(k) == k.stack[Len(k.stack)]
Push(k, f) == [k EXCEPT !.stack = Append(@, f)]
Pop(k) == [k EXCEPT !.stack = SubSeq(@, 1, Len(@) - 1)]
SetTop(k, at) == [k EXCEPT !.stack[Len(k.stack)].at = at]

(* the message goes out whatever reconnect() returned                       *)
ProceedsWhatever(r) == TRUE

(* if not reconnected: return        /      if reconnected: (send again)    *)
Proceeds(r) == r = "true"

(* the innermost call returns r to the frame that waits for it, which runs  *)
(* on to its next await or returns in turn                                  *)
RECURSIVE Return(_, _)
Return(k, r) ==
    IF k.stack = <<>> THEN [k EXCEPT !.result = r]
    ELSE LET at == Top(k).at
         IN  IF at = "pre_wait"
               THEN IF Proceeds(r) THEN SetTop(k, "sending") ELSE Return(Pop(k), "none")
             ELSE IF at = "closed_wait"
               THEN IF Proceeds(r) THEN SetTop(k, "resending") ELSE Return(Pop(k), "none")
             ELSE IF at = "error_wait" THEN Return(Pop(k), "none")
             ELSE Return(Pop(k), "true")    \* "enabling", "configuring"

(* reconnect(), up to its await on websockets.connect                       *)
ReconnectEnter(k) ==
    IF ReconnectGivesUp(k.attempts, k.ceiling)
    THEN Return([k EXCEPT !.gaveup = @ + 1], "false")
    ELSE Push([k EXCEPT !.attempts = @ + 1], Frame("reconnect", "connecting", NoMsg))

(* send_message(m), up to its first await                                   *)
SendEnter(k, m) ==
    IF ~k.connected \/ k.websocket = 0
    THEN ReconnectEnter(Push(k, Frame("send", "pre_wait", m)))
    ELSE Push(k, Frame("send", "sending", m))

(* the connection is marked open and nothing is sent on it                  *)
ConnectOpenedSilently(k) ==
    Return(Pop([k EXCEPT !.connected = TRUE, !.attempts = 0]), "true")

(* connect() after websockets.connect returned: lines 298-305               *)
ConnectOpened(k) ==
    SendEnter(SetTop([k EXCEPT !.connected = TRUE, !.attempts = 0], "configuring"),
              ConfigMsg)

(* reconnect() after websockets.connect returned: lines 331-339             *)
ReconnectOpened(k) ==
    SendEnter(SetTop([k EXCEPT !.connected = TRUE,
                               !.attempts = AttemptsAfterSuccess(@)], "enabling"),
              EnableMsg)

(* the await on websockets.connect of the innermost frame ends with o       *)
ConnectOutcome(k, o) ==
    LET k1 == [k EXCEPT !.opened = @ + 1, !.dials = @ + 1]
    IN  IF o = "ok"
        THEN LET k2 == [k1 EXCEPT !.websocket = k.opened + 1]
             IN  IF Top(k).fn = "connect" THEN ConnectOpened(k2) ELSE ReconnectOpened(k2)
        ELSE IF Top(k).fn = "connect"
             THEN Return(Pop([k1 EXCEPT !.connected = FALSE]), "false")
             ELSE Return(Pop(k1), "false")

(* the await on websocket.send of the innermost frame ends with o           *)
SendOutcome(k, o) ==
    LET f == Top(k)
        k1 == [k EXCEPT !.tries = Append(@, [msg |-> f.msg, socket |-> k.websocket,
                                             outcome |-> o, again |-> f.at = "resending"])]
    IN  IF f.at = "resending" \/ o = "sent" THEN Return(Pop(k1), "none")
        ELSE ReconnectEnter(SetTop([k1 EXCEPT !.connected = FALSE],
                                   IF o = "closed" THEN "closed_wait" ELSE "error_wait"))

SendInit ==
    /\ connected = FALSE
    /\ reconnect_attempts = 0
    /\ max_reconnect_attempts \in CeilingChoices
    /\ websocket = 0
    /\ c_pc = "new"
    /\ c_script = <<>>
    /\ c_result = "none"
    /\ c_calls = 0
    /\ c_opened = 0
    /\ c_depth = 0
    /\ SendUnused
    /\ RecvUnused
    /\ TrainUnused
    /\ DoneUnused
    /\ ScriptUnused
    /\ PureUnused

OwnerMayCall == s_stack = <<>> /\ c_calls < MaxOps

(* the session as the owner's next call finds it                            *)
AtCall == [Session EXCEPT !.tries = <<>>, !.dials = 0]

OwnerConnect ==
    /\ OwnerMayCall
    /\ c_pc' = "connect"
    /\ c_calls' = c_calls + 1
    /\ SessionCommit(Push(AtCall, Frame("connect", "connecting", NoMsg)))
    /\ UNCHANGED <<c_depth, trainVars, doneVars, scriptVars, recvVars, pureVars>>

OwnerSend ==
    /\ OwnerMayCall
    /\ c_pc' = "send"
    /\ c_calls' = c_calls + 1
    /\ SessionCommit(SendEnter(AtCall, CommandMsg(c_calls + 1)))
    /\ UNCHANGED <<c_depth, trainVars, doneVars, scriptVars, recvVars, pureVars>>

OwnerReconnect ==
    /\ OwnerMayCall
    /\ c_pc' = "reconnect"
    /\ c_calls' = c_calls + 1
    /\ SessionCommit(ReconnectEnter(AtCall))
    /\ UNCHANGED <<c_depth, trainVars, doneVars, scriptVars, recvVars, pureVars>>

ConnectEnds ==
    /\ s_stack # <<>>
    /\ Top(Session).at = "connecting"
    /\ c_opened < MaxDials
    /\ \E o \in ConnectOutcomes : SessionCommit(ConnectOutcome(Session, o))
    /\ UNCHANGED <<c_pc, c_calls, c_depth, trainVars, doneVars, scriptVars, recvVars, pureVars>>

SendEnds ==
    /\ s_stack # <<>>
    /\ Top(Session).at \in {"sending", "resending"}
    /\ \E o \in SendOutcomes : SessionCommit(SendOutcome(Session, o))
    /\ UNCHANGED <<c_pc, c_calls, c_depth, trainVars, doneVars, scriptVars, recvVars, pureVars>>

SendNext ==
    \/ OwnerConnect
    \/ OwnerSend
    \/ OwnerReconnect
    \/ ConnectEnds
    \/ SendEnds

SpecSend == SendInit /\ [][SendNext]_vars

NoConnecting(stack) == \A i \in 1..Len(stack) : stack[i].at # "connecting"
OwnerCalls(op) == c_calls' = c_calls + 1 /\ c_pc' = op
Disconnected == ~connected \/ websocket = 0
AtCeiling == reconnect_attempts >= max_reconnect_attempts

(* C11: reconnect_attempts stays within 0..max_reconnect_attempts; at the   *)
(* ceiling a reconnect() call by the owner returns false at once, and no    *)
(* reconnect() call, the owner's or send_message's, starts a connection     *)
(* attempt; the owner can call again.                                       *)
C11_CeilingHolds ==
    /\ [](reconnect_attempts \in 0..max_reconnect_attempts)
    /\ [][(AtCeiling /\ OwnerCalls("reconnect")) =>
             /\ c_result' = "false"
             /\ s_stack' = <<>>
             /\ s_gaveup' = s_gaveup + 1
             /\ UNCHANGED <<reconnect_attempts, connected, websocket>>]_vars
    /\ [][(AtCeiling /\ NoConnecting(s_stack) /\ ~OwnerCalls("connect")) =>
             (NoConnecting(s_stack') /\ c_opened' = c_opened)]_vars

C11_Witness ==
    /\ s_stack = <<>>
    /\ c_pc = "reconnect"
    /\ c_calls = 3
    /\ s_gaveup = 2
    /\ c_opened = 1
    /\ c_result = "false"
    /\ reconnect_attempts = max_reconnect_attempts

(* the connection attempt send_message waits for before its first send      *)
(* fails                                                                    *)
PreReconnectFails ==
    /\ Len(s_stack) = 2
    /\ s_stack[1].at = "pre_wait"
    /\ s_stack[2].at = "connecting"
    /\ c_opened' = c_opened + 1
    /\ websocket' = websocket

(* C12: send_message called while not connected calls reconnect() first,    *)
(* and when that fails the call returns with nothing sent; only the         *)
(* message of the call under way is ever handed to websocket.send.          *)
C12_DroppedWhenReconnectFails ==
    /\ [][(Disconnected /\ OwnerCalls("send")) =>
             \/ (~AtCeiling /\ reconnect_attempts' = reconnect_attempts + 1
                   /\ Len(s_stack') = 2 /\ s_stack'[2].fn = "reconnect"
                   /\ s_tries' = <<>>)
             \/ (AtCeiling /\ s_gaveup' = s_gaveup + 1
                   /\ s_stack' = <<>> /\ s_tries' = <<>> /\ c_result' = "none")]_vars
    /\ [][PreReconnectFails =>
             (s_stack' = <<>> /\ s_tries' = <<>> /\ c_result' = "none")]_vars
    /\ [](\A i \in 1..Len(s_tries) :
             s_tries[i].msg.type = "control" => s_tries[i].msg.n = c_calls)

C12_Witness ==
    /\ c_pc = "send"
    /\ c_calls = 1
    /\ s_stack = <<>>
    /\ s_tries = <<>>
    /\ ~connected
    /\ c_opened = 1
    /\ reconnect_attempts = 1
    /\ c_result = "none"

TriesOf(m) == { i \in 1..Len(s_tries) : s_tries[i].msg = m }
FirstTryOf(m) == CHOOSE i \in TriesOf(m) : \A j \in TriesOf(m) : i <= j

(* C13: a finished send_message whose first send failed, whatever the       *)
(* failure, has sent its message exactly twice when the reconnect that      *)
(* followed made a connection, and once otherwise.                          *)
C13_RetriedOnceAfterAnyFailure ==
    (c_pc = "send" /\ s_stack = <<>> /\ TriesOf(CommandMsg(c_calls)) # {}) =>
        LET m == CommandMsg(c_calls)
            first == s_tries[FirstTryOf(m)]
        IN  Cardinality(TriesOf(m)) =
               IF first.outcome # "sent" /\ websocket # first.socket THEN 2 ELSE 1

ConnectOpens ==
    /\ s_stack # <<>>
    /\ Top(Session).fn = "connect"
    /\ c_opened' = c_opened + 1
    /\ websocket' # websocket

ConnectFails ==
    /\ s_stack # <<>>
    /\ Top(Session).fn = "connect"
    /\ c_opened' = c_opened + 1
    /\ websocket' = websocket

------------------------------------------------------------------------------
(* receive_messages(): the loop over the messages of the connection, and    *)
(* what it does when the connection fails.  A message is a state message    *)
(* (with or without a targetPosition of its own), text that is not JSON,    *)
(* JSON that is not an object, or an object of another type.                *)

MaxInbound == 3       \* messages the server sends
MaxCloses == 1        \* failures of the connection the loop reads

InboundMsgs ==
    { [kind |-> "state", data |-> d, target |-> d.y > min_altitude] : d \in Samples }
    \cup { [kind |-> k, data |-> NoData, target |-> FALSE] :
             k \in {"invalid_json", "not_object", "other"} }

ReadFailures == {"closed", "error"}

RecvInit ==
    /\ connected \in BOOLEAN
    /\ websocket = (IF connected THEN 1 ELSE 0)
    /\ c_opened = websocket
    /\ reconnect_attempts = 0
    /\ max_reconnect_attempts \in CeilingChoices
    /\ c_pc = "recv"
    /\ c_script = <<>>
    /\ c_result = "none"
    /\ c_calls = 0
    /\ c_depth = 0
    /\ SendUnused
    /\ r_pc = "new"
    /\ r_inbox = <<>>
    /\ r_read = 0
    /\ r_kind = "-"
    /\ r_log = <<>>
    /\ r_target = "-"
    /\ r_closes = 0
    /\ TrainUnused
    /\ DoneUnused
    /\ ScriptUnused
    /\ PureUnused

(* every message is stored, whatever it is                                  *)
WritesSlotUnchecked(m) == TRUE

(* json.loads and data.get succeed and message_type == 'state'              *)
WritesSlot(m) == m.kind = "state"

(* if 'targetPosition' not in data: data['targetPosition'] = ...            *)
TargetOf(m) == IF m.target THEN "message" ELSE "default"

(* the server sends a message on the open connection, between two calls of  *)
(* the session                                                              *)
ServerSends ==
    /\ connected /\ websocket # 0
    /\ s_stack = <<>>
    /\ r_inbox = <<>>
    /\ r_read < MaxInbound
    /\ \E m \in InboundMsgs : r_inbox' = <<m>>
    /\ UNCHANGED <<r_pc, r_read, r_kind, r_log, r_target, r_closes, sendVars,
                   trainVars, doneVars, connVars, scriptVars, pureVars>>

(* lines 448-452 *)
RecvStart ==
    /\ r_pc = "new"
    /\ IF ~connected \/ websocket = 0
         THEN /\ r_pc' = "reconnecting"
              /\ SessionCommit(ReconnectEnter(Session))
         ELSE /\ r_pc' = "reading"
              /\ SessionCommit(Session)
    /\ UNCHANGED <<r_inbox, r_read, r_kind, r_log, r_target, r_closes,
                   c_pc, c_calls, c_depth, trainVars, doneVars, scriptVars,
                   pureVars>>

(* lines 455-477: one message of the async for                             *)
RecvRead ==
    /\ r_pc = "reading"
    /\ r_inbox # <<>>
    /\ LET m == Head(r_inbox)
       IN  /\ r_inbox' = Tail(r_inbox)
           /\ r_read' = r_read + 1
           /\ r_kind' = m.kind
           /\ r_log' = Append(r_log, m)
           /\ IF WritesSlot(m)
                THEN /\ \E a \in ActionIds : Commit(ReceiveState(Cur, m.data, a))
                     /\ r_target' = TargetOf(m)
                ELSE UNCHANGED <<trainVars, r_target>>
    /\ UNCHANGED <<r_pc, r_closes, sendVars, doneVars, connVars, scriptVars,
                   pureVars>>

(* lines 479-489: the iteration raises; connected = False, reconnect()      *)
RecvFails ==
    /\ r_pc = "reading"
    /\ r_closes < MaxCloses
    /\ r_closes' = r_closes + 1
    /\ \E f \in ReadFailures : r_kind' = f
    /\ r_inbox' = <<>>
    /\ r_pc' = "reconnecting"
    /\ SessionCommit(ReconnectEnter([Session EXCEPT !.connected = FALSE]))
    /\ UNCHANGED <<r_read, r_log, r_target, c_pc, c_calls, c_depth,
                   trainVars, doneVars, scriptVars, pureVars>>

(* reconnect() has returned: receive_messages() returns                     *)
RecvReturns ==
    /\ r_pc = "reconnecting"
    /\ s_stack = <<>>
    /\ r_pc' = "ended"
    /\ UNCHANGED <<r_inbox, r_read, r_kind, r_log, r_target, r_closes, sendVars,
                   trainVars, doneVars, connVars, scriptVars, pureVars>>

RecvNext ==
    \/ ServerSends
    \/ RecvStart
    \/ RecvRead
    \/ RecvFails
    \/ RecvReturns
    \/ ConnectEnds
    \/ SendEnds

SpecReceive == RecvInit /\ [][RecvNext]_vars

(* the loop and the calls it waits for run whenever they can                *)
SpecReceiveLive ==
    /\ SpecReceive
    /\ WF_vars(RecvStart) /\ WF_vars(RecvRead) /\ WF_vars(RecvReturns)
    /\ WF_vars(ConnectEnds) /\ WF_vars(SendEnds)

StateReads == { i \in 1..Len(r_log) : r_log[i].kind = "state" }
LastStateRead == CHOOSE i \in StateReads : \A j \in StateReads : j <= i

(* C15: after the receive loop has read any sequence of messages the slot   *)
(* holds the latest state message among them (with the targetPosition the   *)
(* code fills in when the message has none), and is empty when there was    *)
(* none.                                                                    *)
C15_SlotHoldsLatest ==
    IF StateReads = {}
    THEN drone_state = NoData /\ r_target = "-" /\ delivered = 0
    ELSE /\ drone_state = r_log[LastStateRead].data
         /\ r_target = (IF r_log[LastStateRead].target THEN "message" ELSE "default")
         /\ delivered = Cardinality(StateReads)

C15_Witness ==
    /\ Len(r_log) = 2
    /\ r_log[1].kind = "state" /\ r_log[2].kind = "state"
    /\ r_log[1].data # r_log[2].data
    /\ drone_state = r_log[2].data
    /\ ~r_log[2].target /\ r_target = "default"

MalformedRead ==
    /\ r_read' = r_read + 1
    /\ r_kind' \in {"invalid_json", "not_object"}

(* C16: reading a message that is not JSON or not a JSON object leaves the  *)
(* slot, the connected flag and the connection as they were, and the loop   *)
(* stays in its iteration.                                                  *)
C16_MalformedDropped ==
    [][MalformedRead =>
         /\ UNCHANGED <<drone_state, connected, websocket, r_target, delivered>>
         /\ r_pc' = "reading"]_vars

C16_Witness ==
    /\ Len(r_log) = 3
    /\ r_log[1].kind = "state"
    /\ r_log[2].kind \in {"invalid_json", "not_object"}
    /\ r_log[3].kind = "state"
    /\ r_log[1].data # r_log[3].data
    /\ drone_state = r_log[3].data
    /\ connected /\ websocket = 1
    /\ r_pc = "reading"

(* C17: a message the server sends after the loop's connection failed, on   *)
(* the connection reconnect() made, is eventually read.                     *)
C17_DeliveryResumes ==
    [](((r_closes > 0 /\ connected /\ r_inbox # <<>>)) => <>(r_inbox = <<>>))

------------------------------------------------------------------------------
(* Properties of train()'s error handling and of its wait for telemetry     *)

(* C18: train() returns only when all its episodes have run, whatever       *)
(* exception an episode met (a failed checkpoint save included).            *)
C18_RunsRemainingEpisodes == pc = "returned" => current_episode >= episodes

WaitTimesOut == pc = "wait" /\ ~drone_state.present /\ attempts' = attempts + 1

C20_RunsOnlyOnFreshTelemetry ==
    [][(training_state # "EPISODE_RUNNING" /\ training_state' = "EPISODE_RUNNING")
          => delivered' > head_delivered']_vars

------------------------------------------------------------------------------
(* Properties of the receive loop's effects during training                 *)

(* C21: the handling of a state message by the receive loop changes the     *)
(* telemetry slot only: it stores no transition, runs no agent update,      *)
(* sends no command, leaves the (state, action) pair and the remembered     *)
(* distance alone and schedules no reset that would change training_state.  *)
C21_ReceiveOnlyWritesSlot ==
    [][delivered' # delivered =>
          UNCHANGED <<memory_size, memory_last, step_counter, sent,
                      current_state, current_action, prev_distance_to_target,
                      training_state, tasks>>]_vars

------------------------------------------------------------------------------
(* Properties of the reward history                                         *)

AppendedTo(old, new) ==
    /\ Len(new) = Len(old) + 1
    /\ SubSeq(new, 1, Len(old)) = old

(* C22: the reward history only grows by appending, holds one entry per     *)
(* episode whose duration exceeded the threshold and none for any other,    *)
(* and holds `episodes` entries when train() returns normally.              *)
C22_OneEntryPerCountedEpisode ==
    /\ [](Len(episode_rewards) = counted)
    /\ [](pc = "returned" /\ ret # "error" => Len(episode_rewards) = episodes)
    /\ [][\/ episode_rewards' = episode_rewards
          \/ AppendedTo(episode_rewards, episode_rewards')]_vars
    /\ [][counted' = counted => episode_rewards' = episode_rewards]_vars

C22_Witness ==
    /\ pc = "returned" /\ ret # "error"
    /\ episodes = 2
    /\ counted = 2
    /\ Len(episode_rewards) = 2

MaxEntry(seq) ==
    CHOOSE m \in {seq[i] : i \in DOMAIN seq} : \A i \in DOMAIN seq : seq[i] <= m

LastEntry(seq) == seq[Len(seq)]

(* C23: once the history has an entry, best_reward is its maximum; the      *)
(* episode that appends an entry saves the best-model checkpoint (a third   *)
(* agent.save) exactly when its reward exceeds best_reward as it was.       *)
C23_BestIsMaxOfHistory ==
    /\ [](episode_rewards # <<>> => best_reward = MaxEntry(episode_rewards))
    /\ [][AppendedTo(episode_rewards, episode_rewards') =>
              (saves' = saves + 3 <=> LastEntry(episode_rewards') > best_reward)]_vars

------------------------------------------------------------------------------
(* DQNAgent.memorize on its own.  The replay buffer is deque(maxlen=10000); *)
(* the model keeps the deque's behaviour and reduces its maxlen.            *)

MemoryMaxlen == 3       \* maxlen of agent.memory in the model
MaxInserts == 6         \* calls of memorize

(* what a call of memorize is given, its place in the call order aside      *)
MemorizeArgs == [reward : {-1, 0, 1}, done : BOOLEAN]

(* the newest transition is dropped when the buffer is full                 *)
DequeAppendKeepsOldest(q, x) ==
    IF Len(q) >= MemoryMaxlen THEN q ELSE Append(q, x)

(* deque.append with maxlen: a full deque discards its leftmost item        *)
DequeAppend(q, x) ==
    IF Len(q) >= MemoryMaxlen THEN Append(Tail(q), x) ELSE Append(q, x)

MemoryInit ==
    /\ ProgUnused /\ ReplayUnused /\ FeatUnused /\ CkptUnused /\ RateUnused /\ RelayUnused
    /\ a_memory = <<>>
    /\ a_inserted = <<>>

(* lines 50-52 *)
AgentMemorize ==
    /\ Len(a_inserted) < MaxInserts
    /\ \E t \in MemorizeArgs :
          /\ a_memory' = DequeAppend(a_memory, t)
          /\ a_inserted' = Append(a_inserted, t)
    /\ UNCHANGED <<progVars, replayVars, featVars, ckptVars, rateVars, relayVars>>

MemoryNext == AgentMemorize

SpecMemory == MemoryInit /\ [][MemoryNext]_vars

(* the latest n items of a sequence, in order                               *)
LatestOf(seq, n) == SubSeq(seq, Len(seq) - n + 1, Len(seq))

(* C24: the buffer never holds more than maxlen transitions, and once more  *)
(* than maxlen have been memorized it holds the latest maxlen of them,      *)
(* oldest first.                                                            *)
C24_BufferKeepsLatest ==
    /\ Len(a_memory) <= MemoryMaxlen
    /\ Len(a_inserted) > MemoryMaxlen =>
          /\ Len(a_memory) = MemoryMaxlen
          /\ a_memory = LatestOf(a_inserted, MemoryMaxlen)
    /\ Len(a_inserted) <= MemoryMaxlen => a_memory = a_inserted

C24_Witness ==
    /\ Len(a_inserted) = MemoryMaxlen + 2
    /\ Len(a_memory) = MemoryMaxlen
    /\ a_inserted[1] # a_inserted[MemoryMaxlen + 1]
    /\ a_inserted[2] # a_inserted[MemoryMaxlen + 2]
    /\ a_memory[1] = a_inserted[3]
    /\ a_memory[1] # a_inserted[1]

------------------------------------------------------------------------------
(* DQNAgent.replay on its own: the decay of epsilon and the target network. *)
(* epsilon is held in units of 1e-9 and epsilon_decay in thousandths; the   *)
(* product is cut to a whole number of units.                               *)

EpsilonOne == 1000000000        \* 1.0
epsilon_min == 10000000         \* 0.01
DecayOne == 1000                \* 1.0
epsilon_decay == 995            \* 0.995
update_freq == 10
MaxReplays == 925               \* training updates

StartEpsilons == {EpsilonOne, 12500000, epsilon_min}
Decays == {epsilon_decay, 900, 500}

(* eps * decay in units of 1e-9, computed in two parts to stay within the   *)
(* range of the integers of the model                                       *)
Times(eps, decay) ==
    (eps \div DecayOne) * decay + ((eps % DecayOne) * decay) \div DecayOne

(* lines 99-100 *)
DecayEpsilon(eps, decay) ==
    IF eps > epsilon_min THEN Times(eps, decay) ELSE eps

(* the target network follows the online network at every update            *)
SyncDueAlways(counter) == TRUE

(* line 104 *)
SyncDue(counter) == counter % update_freq = 0

ReplayInit ==
    /\ ProgUnused /\ MemoUnused /\ FeatUnused /\ CkptUnused /\ RateUnused /\ RelayUnused
    /\ a_len = 0
    /\ a_epsilon \in StartEpsilons
    /\ a_epsilon_decay \in Decays
    /\ a_step_counter = 0
    /\ a_model = 0
    /\ a_target = 0

(* memorize, as far as replay sees it: the buffer grows by one; past        *)
(* batch_size its length no longer changes what replay does                 *)
ReplayMemorize ==
    /\ a_len < batch_size
    /\ a_len' = a_len + 1
    /\ UNCHANGED <<a_epsilon, a_epsilon_decay, a_step_counter, a_model, a_target>>
    /\ UNCHANGED <<progVars, memoVars, featVars, ckptVars, rateVars, relayVars>>

(* lines 64-105 *)
AgentReplay ==
    /\ a_step_counter < MaxReplays
    /\ IF a_len < batch_size
       THEN UNCHANGED <<a_epsilon, a_step_counter, a_model, a_target>>
       ELSE /\ a_model' = a_model + 1
            /\ a_epsilon' = DecayEpsilon(a_epsilon, a_epsilon_decay)
            /\ a_step_counter' = a_step_counter + 1
            /\ a_target' = IF SyncDue(a_step_counter + 1) THEN a_model + 1 ELSE a_target
    /\ UNCHANGED <<a_len, a_epsilon_decay>>
    /\ UNCHANGED <<progVars, memoVars, featVars, ckptVars, rateVars, relayVars>>

ReplayNext == ReplayMemorize \/ AgentReplay

SpecReplay == ReplayInit /\ [][ReplayNext]_vars

(* C25: epsilon never rises and never falls below epsilon_min, from any     *)
(* start in [epsilon_min, 1] and with any decay factor in (0, 1).           *)
C25_EpsilonStaysAboveFloor ==
    /\ [](a_epsilon >= epsilon_min)
    /\ [][a_epsilon' <= a_epsilon]_vars

Updated == a_step_counter' = a_step_counter + 1

(* C26: an update whose number is a multiple of update_freq leaves the      *)
(* target parameters equal to the online parameters; any other step leaves  *)
(* the target parameters as they were.                                      *)
C26_TargetSyncedEveryPeriod ==
    /\ [][Updated /\ a_step_counter' % update_freq = 0 => a_target' = a_model']_vars
    /\ [][~(Updated /\ a_step_counter' % update_freq = 0) => a_target' = a_target]_vars

C26_Witness ==
    /\ a_step_counter = update_freq + 5
    /\ a_target = update_freq
    /\ a_model = update_freq + 5

------------------------------------------------------------------------------
(* extract_state_features on its own.  Lengths are in millimetres, speeds   *)
(* in millimetres per second, angles in degrees; a feature is held in       *)
(* thousandths, so 1.0 is 1000.  Quotients are rounded towards minus        *)
(* infinity.                                                                *)

state_size == 15
FeatureOne == 1000

(* state_data: position, rotation (x = pitch, y = yaw, z = roll), velocity  *)
FeatureData(x, y, z, pitch, yaw, roll, vx, vy, vz) ==
    [present |-> TRUE, x |-> x, y |-> y, z |-> z,
     pitch |-> pitch, yaw |-> yaw, roll |-> roll, vx |-> vx, vy |-> vy, vz |-> vz]

FeaturePositions == {-30000, 0, 50000, 1000000000}   \* 10^6 m is 10^9 mm
FeatureAltitudes == {200, 10000}
FeatureAngles == {-400, 0, 180, 270}
FeatureSpeeds == {-10000, 0, 25000}

FeatureInputs ==
    {NoData} \cup
    { FeatureData(x, y, 30000, pitch, 0, roll, vx, 0, 0) :
        x \in FeaturePositions, y \in FeatureAltitudes,
        pitch \in FeatureAngles, roll \in FeatureAngles, vx \in FeatureSpeeds }

Max(a, b) == IF a > b THEN a ELSE b

(* max(-1.0, min(1.0, angle / 180.0)) *)
AngleNorm(angle) ==
    Max(-FeatureOne, Min(FeatureOne, (angle * FeatureOne) \div 180))

(* min(1.0, distance / 100.0): a distance of 100 m or more gives 1.0; below *)
(* that the square root is taken of the offsets in centimetres              *)
DistanceNorm(dx, dy, dz) ==
    IF Abs(dx) >= 100000 \/ Abs(dy) >= 100000 \/ Abs(dz) >= 100000
    THEN FeatureOne
    ELSE Min(FeatureOne,
             ISqrt((dx \div 10) * (dx \div 10) + (dy \div 10) * (dy \div 10)
                   + (dz \div 10) * (dz \div 10)) \div 10)

(* lines 550-625 *)
ExtractStateFeatures(sd) ==
    IF ~sd.present THEN [i \in 1..state_size |-> 0]
    ELSE LET dx == sd.x - target_x
             dy == sd.y
             dz == sd.z - target_z
             dn == DistanceNorm(dx, dy, dz)
         IN  << sd.x \div 50, sd.y \div 50, sd.z \div 50,
                AngleNorm(sd.pitch), AngleNorm(sd.yaw), AngleNorm(sd.roll),
                sd.vx \div 10, sd.vy \div 10, sd.vz \div 10,
                dx \div 100, dy \div 100, dz \div 100,
                dn, dn \div 2,
                IF sd.y < min_altitude THEN FeatureOne ELSE 0 >>

FeatInit ==
    /\ ProgUnused /\ AgentUnused /\ CkptUnused /\ RateUnused /\ RelayUnused
    /\ f_in \in FeatureInputs
    /\ f_out = <<>>

FeatCall ==
    /\ f_out = <<>>
    /\ f_out' = ExtractStateFeatures(f_in)
    /\ UNCHANGED f_in
    /\ UNCHANGED <<progVars, agentVars, ckptVars, rateVars, relayVars>>

FeatNext == FeatCall

SpecFeatures == FeatInit /\ [][FeatNext]_vars

(* the components with range [0, 1]: the two distance features and the      *)
(* near-ground indicator                                                    *)
UnitRange(i) == IF i >= 13 THEN 0..FeatureOne ELSE (-FeatureOne)..FeatureOne

(* C27: the vector returned has state_size components and each of them is   *)
(* within its normalized range, whatever the telemetry.                     *)
C27_FeaturesWithinRange ==
    f_out # <<>> =>
        /\ Len(f_out) = state_size
        /\ \A i \in 1..state_size : f_out[i] \in UnitRange(i)

------------------------------------------------------------------------------
(* DQNAgent.save and DQNAgent.load.  A filepath is a sequence of pieces:    *)
(* the prefix "learning/", the suffixes ".weights" and ".h5", and "m" for   *)
(* any other text; startswith, endswith and [:-3] act on whole pieces.      *)

MaxPathLen == 3         \* pieces of the filepath given

PathPieces == {"learning/", "m", ".weights", ".h5"}

RECURSIVE PathsOfLen(_)
PathsOfLen(n) ==
    IF n = 0 THEN {<<>>}
    ELSE {Append(q, t) : q \in PathsOfLen(n - 1), t \in PathPieces}

Paths == UNION {PathsOfLen(n) : n \in 0..MaxPathLen}

StartsWith(path, piece) == path # <<>> /\ path[1] = piece

EndsWith(path, pieces) ==
    /\ Len(path) >= Len(pieces)
    /\ SubSeq(path, Len(path) - Len(pieces) + 1, Len(path)) = pieces

(* filepath[:-3] of a filepath that ends with ".h5" *)
WithoutH5(path) == SubSeq(path, 1, Len(path) - 1)

(* lines 113-114 and 129-130 *)
InLearning(path) ==
    IF StartsWith(path, "learning/") THEN path ELSE <<"learning/">> \o path

(* lines 113-123: the file save writes                                      *)
SavePath(path) ==
    LET f1 == InLearning(path)
        f2 == IF EndsWith(f1, <<".h5">>) THEN WithoutH5(f1) ELSE f1
        f3 == IF ~EndsWith(f2, <<".weights">>) THEN Append(f2, ".weights") ELSE f2
    IN  Append(f3, ".h5")

(* lines 129-139: the file load reads                                       *)
LoadPath(path) ==
    LET f1 == InLearning(path)
    IN  IF EndsWith(f1, <<".h5">>) /\ ~EndsWith(f1, <<".weights", ".h5">>)
        THEN WithoutH5(f1) \o <<".weights", ".h5">>
        ELSE IF ~EndsWith(f1, <<".weights", ".h5">>)
        THEN f1 \o <<".weights", ".h5">>
        ELSE f1

(* save_weights: the file is created or overwritten                         *)
Written(disk, file, params) ==
    {e \in disk : e.file # file} \cup {[file |-> file, params |-> params]}

OnDisk(disk, file) == \E e \in disk : e.file = file

ParamsIn(disk, file) == (CHOOSE e \in disk : e.file = file).params

CkptInit ==
    /\ ProgUnused /\ AgentUnused /\ FeatUnused /\ RateUnused /\ RelayUnused
    /\ k_path \in Paths
    /\ k_disk = {}
    /\ k_model = 1
    /\ k_target = k_model
    /\ k_saved = 0
    /\ k_pc = "start"

(* agent.save(k_path); save_weights raises when the directory is missing    *)
CkptSave ==
    /\ k_pc = "start"
    /\ \/ /\ k_disk' = Written(k_disk, SavePath(k_path), k_model)
          /\ k_saved' = k_model
          /\ k_pc' = "saved"
       \/ /\ k_pc' = "save_raised"
          /\ UNCHANGED <<k_disk, k_saved>>
    /\ UNCHANGED <<k_path, k_model, k_target>>
    /\ UNCHANGED <<progVars, agentVars, featVars, rateVars, relayVars>>

(* the online network is trained on, or a new agent is built, before the    *)
(* load; the target network is synchronised by it (update_target_model in   *)
(* replay or in __init__) or left as it is                                  *)
CkptFit ==
    /\ k_pc = "saved"
    /\ k_model' = k_model + 1
    /\ \E sync \in BOOLEAN : k_target' = IF sync THEN k_model' ELSE k_target
    /\ k_pc' = "changed"
    /\ UNCHANGED <<k_path, k_disk, k_saved>>
    /\ UNCHANGED <<progVars, agentVars, featVars, rateVars, relayVars>>

(* agent.load(k_path); load_weights raises when the file is missing         *)
CkptLoad ==
    /\ k_pc \in {"saved", "changed"}
    /\ IF OnDisk(k_disk, LoadPath(k_path))
       THEN /\ k_model' = ParamsIn(k_disk, LoadPath(k_path))
            /\ k_pc' = "loaded"
       ELSE /\ k_pc' = "load_raised"
            /\ UNCHANGED k_model
    /\ UNCHANGED <<k_path, k_disk, k_saved, k_target>>
    /\ UNCHANGED <<progVars, agentVars, featVars, rateVars, relayVars>>

CkptNext == CkptSave \/ CkptFit \/ CkptLoad

SpecCheckpoint == CkptInit /\ [][CkptNext]_vars

(* C28: load(p) after a save(p) that wrote its file finds that file and     *)
(* leaves the online network with the parameters it had at the save, so    *)
(* that the greedy action is the one from before the save.                  *)
C28_LoadRestoresSaved ==
    /\ k_pc # "load_raised"
    /\ k_pc = "loaded" => k_model = k_saved

------------------------------------------------------------------------------
(* Properties of the messages the session sends                             *)

Transmitted == {s_tries[i].msg : i \in {j \in DOMAIN s_tries : s_tries[j].outcome = "sent"}}

(* C29: every message of type control that is sent carries a timestamp and  *)
(* the four axes thrust, pitch, roll and yaw.                               *)
C29_ControlMessagesComplete ==
    \A m \in Transmitted :
        WireType(m) = "control" =>
            {"timestamp", "thrust", "pitch", "roll", "yaw"} \subseteq WireKeys(m)

------------------------------------------------------------------------------
(* DroneSimulationInterface.send_command of drone_control.py: the rate      *)
(* limit on control commands.  Time is in hundredths of a second.  The      *)
(* command is handed to websocket.send before send_command first suspends,  *)
(* so a command's time of transmission is the time of its call.             *)

command_interval == 5       \* 0.05 s
MaxTicks == 8               \* hundredths of a second the clock advances
MaxCommands == 4            \* calls of send_command

StartTimes == {3, 100}
CommandFates == {"sent", "raised", "not_connected", "dropped"}

(* no limit at all                                                          *)
RateLimitedNever(now, last) == FALSE

(* drone_control.py line 66 *)
RateLimited(now, last) == now - last < command_interval

RateInit ==
    /\ ProgUnused /\ AgentUnused /\ FeatUnused /\ CkptUnused /\ RelayUnused
    /\ q_now \in StartTimes
    /\ q_last = 0
    /\ q_connected = FALSE
    /\ q_log = <<>>

Started == CHOOSE t \in StartTimes : \E n \in 0..MaxTicks : q_now = t + n

(* the clock advances                                                       *)
RateTick ==
    /\ q_now < Started + MaxTicks
    /\ q_now' = q_now + 1
    /\ UNCHANGED <<q_last, q_connected, q_log>>
    /\ UNCHANGED <<progVars, agentVars, featVars, ckptVars, relayVars>>

(* drone_control.py lines 38-52: connect() succeeds                         *)
RateConnect ==
    /\ ~q_connected
    /\ q_connected' = TRUE
    /\ UNCHANGED <<q_now, q_last, q_log>>
    /\ UNCHANGED <<progVars, agentVars, featVars, ckptVars, relayVars>>

Logged(fate) == Append(q_log, [time |-> q_now, fate |-> fate])

(* drone_control.py lines 61-80 and 106-116: one call of send_command, by   *)
(* train_drone or by process_message                                        *)
RateSendCommand ==
    /\ Len(q_log) < MaxCommands
    /\ IF RateLimited(q_now, q_last)
       THEN /\ q_log' = Logged("dropped")
            /\ UNCHANGED <<q_last, q_connected>>
       ELSE /\ q_last' = q_now
            /\ IF ~q_connected
               THEN /\ q_log' = Logged("not_connected")
                    /\ UNCHANGED q_connected
               ELSE \/ /\ q_log' = Logged("sent")
                       /\ UNCHANGED q_connected
                    \/ /\ q_log' = Logged("raised")
                       /\ q_connected' = FALSE
    /\ UNCHANGED q_now
    /\ UNCHANGED <<progVars, agentVars, featVars, ckptVars, relayVars>>

RateNext == RateTick \/ RateConnect \/ RateSendCommand

SpecRate == RateInit /\ [][RateNext]_vars

SentAt(i) == q_log[i].fate = "sent"

(* C30: two commands that were transmitted are at least command_interval    *)
(* apart; a command called less than command_interval after a transmitted   *)
(* one is dropped, and what became of a command never changes afterwards.   *)
C30_CommandsRateLimited ==
    /\ [](\A i, j \in DOMAIN q_log :
            (i < j /\ SentAt(i) /\ SentAt(j)) =>
                q_log[j].time - q_log[i].time >= command_interval)
    /\ [](\A i, j \in DOMAIN q_log :
            (i < j /\ SentAt(i) /\ q_log[j].time - q_log[i].time < command_interval) =>
                q_log[j].fate = "dropped")
    /\ [][\A i \in DOMAIN q_log : q_log'[i] = q_log[i]]_vars

C30_Witness ==
    /\ Len(q_log) = 3
    /\ q_log[1].fate = "sent"
    /\ q_log[2].fate = "dropped" /\ q_log[2].time > q_log[1].time
    /\ q_log[3].fate = "sent" /\ q_log[3].time = q_log[1].time + command_interval

------------------------------------------------------------------------------
(* train() over one long episode: enough steps for agent.memory to grow     *)
(* past batch_size inside the step loop.                                    *)

LongSteps == 36       \* steps_per_episode of the long episode

LongInit ==
    /\ TrainInit
    /\ episodes = 1
    /\ steps_per_episode = LongSteps
    /\ DoneUnused
    /\ ConnUnused
    /\ ScriptUnused
    /\ RestUnused

SpecLong == LongInit /\ [][Next]_vars

(* lines 1010-1020: the step loop comes back from send_control_command      *)
StepEnds == pc = "step_send" /\ pc' = "step_sleep"

(* C31: at the end of a non-terminal step of the step loop the agent is     *)
(* updated exactly when agent.memory holds at least batch_size transitions. *)
C31_ReplayFromBatchSize ==
    [][StepEnds => (step_counter' = step_counter + 1 <=> memory_size >= batch_size)]_vars

(* lines 981-1011: a non-terminal step of the step loop has stored what it  *)
(* stores and hands its command to send_control_command                     *)
ControlStepTaken == pc \in {"stabilize", "step_sleep"} /\ pc' = "step_send"

(* the transition a step makes of the pair the step loop selected one step  *)
(* before and of the telemetry in the slot                                  *)
DelayedTransition ==
    [state |-> selected.state, action |-> selected.action,
     reward |-> CalculateReward(drone_state, prev_distance_to_target),
     next_state |-> drone_state, done |-> FALSE]

(* C32: the first step of an episode stores no transition, and every later  *)
(* non-terminal step stores exactly one: the state and action the step loop *)
(* selected one step before, the reward and the next state of this step's   *)
(* telemetry, done = false.                                                 *)
C32_RewardOneStepDelayed ==
    [][ControlStepTaken =>
          IF episode_steps' = 1
          THEN memory_size' = memory_size
          ELSE /\ memory_size' = memory_size + 1
               /\ memory_last' = DelayedTransition]_vars

(* lines 954-979: a step of the step loop took the terminal branch, up to   *)
(* the first suspension point of reset_simulation                           *)
TerminalStepTaken ==
    /\ pc \in {"stabilize", "step_sleep"}
    /\ episode_steps' = episode_steps + 1
    /\ pc' \notin {"step_send", "step_sleep"}

(* the only command of the terminal branch is the stop command of a         *)
(* reset_simulation that got past its guard                                 *)
StopCommands == IF reset_in_progress' /\ ~reset_in_progress THEN 1 ELSE 0

(* C33: on a terminal verdict the step loop stores a transition with        *)
(* done = true exactly when a prior (state, action) pair exists, and it     *)
(* selects and sends no action for the terminal telemetry.                  *)
C33_TerminalStoresPrior ==
    [][TerminalStepTaken =>
          /\ IF current_state.present /\ current_action # 0
             THEN /\ memory_size' = memory_size + 1
                  /\ memory_last'.state = current_state
                  /\ memory_last'.action = current_action
                  /\ memory_last'.next_state = drone_state
                  /\ memory_last'.done
             ELSE /\ memory_size' = memory_size
                  /\ memory_last' = memory_last
          /\ current_action' = current_action
          /\ selected' = selected
          /\ sent'["control"] = sent["control"] + StopCommands]_vars

C33_Witness ==
    /\ pc = "r_stop" /\ ret = "episode_end"
    /\ episode_done_reason = "tilt"
    /\ memory_last.done
    /\ memory_last.state = selected.state
    /\ memory_last.next_state = drone_state
    /\ memorize_state = "EPISODE_RUNNING"
    /\ training_state = "RESETTING"

(* C34: the connection attempts made on behalf of one send_message call,    *)
(* those of the enable message that reconnect() sends included, are at most *)
(* max_reconnect_attempts.                                                  *)
C34_AttemptsPerSendBounded == c_pc = "send" => s_dials <= max_reconnect_attempts

------------------------------------------------------------------------------
(* train() with the tasks of the event loop run whenever they can: the      *)
(* train task goes on from every await, its waits expire, the reset tasks   *)
(* run; nothing is assumed of the simulator's messages, and no await is     *)
(* assumed to raise.                                                        *)

(* lines 907-915: the wait expires with the slot still empty, as often as   *)
(* the slot stays empty                                                     *)
TrainWaitExpires ==
    /\ pc = "wait"
    /\ ~drone_state.present
    /\ Commit(EpisodeLoop(Cur))
    /\ UNCHANGED <<doneVars, connVars, scriptVars, restVars>>

TrainLiveNext ==
    \/ TrainBegin
    \/ TrainEpisodeLoop
    \/ TrainWaitGotState
    \/ TrainWaitExpires
    \/ TrainStabilized
    \/ TrainSendDone
    \/ TrainStep
    \/ TrainResetStopSent
    \/ TrainResetSent
    \/ TrainResetDone
    \/ TrainResetRaise
    \/ TaskStart
    \/ TaskResetStopSent
    \/ TaskResetSent
    \/ TaskResetDone
    \/ TaskResetRaise
    \/ Deliver

SpecTrainLive ==
    /\ Init
    /\ [][TrainLiveNext]_vars
    /\ WF_vars(TrainBegin) /\ WF_vars(TrainEpisodeLoop) /\ WF_vars(TrainWaitGotState)
    /\ WF_vars(TrainWaitExpires) /\ WF_vars(TrainStabilized) /\ WF_vars(TrainSendDone)
    /\ WF_vars(TrainStep) /\ WF_vars(TrainResetStopSent) /\ WF_vars(TrainResetSent)
    /\ WF_vars(TrainResetDone) /\ WF_vars(TaskStart) /\ WF_vars(TaskResetStopSent)
    /\ WF_vars(TaskResetSent) /\ WF_vars(TaskResetDone)

(* train() has returned, or its task was cancelled                          *)
TrainEnded == pc \in {"returned", "cancelled"}

(* C35: train() eventually returns, also when no telemetry ever arrives: a  *)
(* behaviour in which the slot stays empty for ever has train() end.        *)
C35_TrainReturnsWithoutTelemetry == <>(TrainEnded \/ drone_state.present)

(* lines 930-952: the stabilization sleep is over and the step loop runs    *)
(* its first step, where calculate_reward is called first in the episode    *)
FirstStepTaken == pc = "stabilize" /\ pc' # "stabilize"

(* C36: the first calculate_reward call of an episode has a progress term   *)
(* of zero, and it seeds the remembered distance from its telemetry.        *)
C36_FirstRewardHasNoProgress ==
    [][FirstStepTaken =>
          /\ episode_reward' = CalculateReward(drone_state, -1)
          /\ prev_distance_to_target' = Distance3D(drone_state)]_vars

(* C37: right after agent.load the target network has the parameters the    *)
(* online network was loaded with.                                          *)
C37_LoadResyncsTarget == k_pc = "loaded" => k_target = k_model

------------------------------------------------------------------------------
(* The steps at which is_episode_done reports a tilt crash and a landing    *)

LandingReasons == {"landed_on_target", "landed_outside"}

(* some telemetry has is_episode_done report one of the reasons at step     *)
(* index steps of a running episode                                         *)
CanReport(steps, maxs, reasons) ==
    \E sd \in DoneData :
        LET v == IsEpisodeDone("EPISODE_RUNNING", sd, steps, maxs, "none")
        IN  v.done /\ v.reason \in reasons

(* C38: a step index at which is_episode_done reports a tilt crash is one   *)
(* at which it can report a landing, and the other way round; inside the    *)
(* grace period it reports neither.                                         *)
C38_TiltAndLandingSameSteps ==
    /\ (d_out = "true" /\ d_reason = "tilt") => CanReport(d_steps, d_max, LandingReasons)
    /\ (d_out = "true" /\ d_reason \in LandingReasons) => CanReport(d_steps, d_max, {"tilt"})
    /\ (d_out = "true" /\ d_reason \in LandingReasons \cup {"tilt"}) =>
           d_steps >= start_steps_grace_period

------------------------------------------------------------------------------
(* Resets and running episodes                                              *)

(* C39: while reset_in_progress is true training_state is not               *)
(* EPISODE_RUNNING: no episode runs while a reset is in flight.             *)
C39_NoEpisodeDuringReset == reset_in_progress => training_state # "EPISODE_RUNNING"

------------------------------------------------------------------------------
(* websocket_server.py: the relay.  handle_client registers a connection,   *)
(* forwards the messages it reads with broadcast_message and unregisters    *)
(* the connection when it ends.  broadcast_message iterates over the set    *)
(* connected_clients itself and awaits a send inside the loop, so the other *)
(* handlers run, and change the set, while the iteration is under way.  A   *)
(* set iterator raises RuntimeError from its next step when the set's size  *)
(* is not the size it had when the iteration began; a client added without  *)
(* that is met or not by the rest of the iteration.                         *)

MaxJoins == 4         \* connections the server accepts
MaxRelayMsgs == 2     \* messages the server receives

RelayedKinds == {"state", "control", "config", "reset"}
MessageKinds == RelayedKinds \cup {"unknown", "invalid_json"}

(* if client != sender *)
Recipients(clients, sender) == clients \ {sender}

(* the for statement takes its next client c (0 when none is left)          *)
IterNext(b, clients, c) ==
    IF Cardinality(clients) # b.size THEN [b EXCEPT !.at = "raised", !.to = 0]
    ELSE IF b.todo = {} THEN [b EXCEPT !.at = "done", !.to = 0]
    ELSE [b EXCEPT !.at = "sending", !.to = c, !.todo = @ \ {c}]

NextClients(b) == IF b.todo = {} THEN {0} ELSE b.todo

(* broadcast_message(sender, message), up to its first await                *)
BroadcastBegin(sender, n, clients, c) ==
    IterNext([at |-> "iterating", sender |-> sender, n |-> n,
              size |-> Cardinality(clients),
              todo |-> Recipients(clients, sender), to |-> 0,
              stayed |-> Recipients(clients, sender)], clients, c)

RelayInit ==
    /\ ProgUnused /\ AgentUnused /\ FeatUnused /\ CkptUnused /\ RateUnused
    /\ connected_clients = {}
    /\ relay_drone_state = 0
    /\ received = <<>>
    /\ forwarded = {}
    /\ bcast = NoBroadcast
    /\ joins = 0

(* lines 23-30: a connection is accepted and registered                     *)
RelayConnect ==
    /\ joins < MaxJoins
    /\ joins' = joins + 1
    /\ connected_clients' = connected_clients \cup {joins + 1}
    /\ IF bcast.at = "sending"
       THEN \E passed \in BOOLEAN :
               bcast' = [bcast EXCEPT !.todo = IF passed THEN @ ELSE @ \cup {joins + 1}]
       ELSE UNCHANGED bcast
    /\ UNCHANGED <<relay_drone_state, received, forwarded>>
    /\ UNCHANGED <<progVars, agentVars, featVars, ckptVars, rateVars>>

(* lines 74-82: a client's connection ends while its handler waits for a    *)
(* message, and the handler unregisters it                                  *)
RelayDisconnect ==
    /\ \E c \in connected_clients :
          /\ ~(bcast.at = "sending" /\ bcast.sender = c)
          /\ connected_clients' = connected_clients \ {c}
          /\ bcast' = IF bcast.at = "sending"
                      THEN [bcast EXCEPT !.todo = @ \ {c}, !.stayed = @ \ {c}]
                      ELSE bcast
    /\ UNCHANGED <<relay_drone_state, received, forwarded, joins>>
    /\ UNCHANGED <<progVars, agentVars, featVars, ckptVars, rateVars>>

(* lines 33-71: a handler reads a message, up to the first await of the     *)
(* broadcast it makes                                                       *)
RelayReceive ==
    /\ Len(received) < MaxRelayMsgs
    /\ bcast.at # "sending"
    /\ \E c \in connected_clients, kind \in MessageKinds :
          LET n == Len(received) + 1
          IN  /\ received' = Append(received, [from |-> c, kind |-> kind])
              /\ relay_drone_state' = IF kind = "state" THEN n ELSE relay_drone_state
              /\ IF kind \in RelayedKinds
                 THEN \E to \in NextClients([todo |-> Recipients(connected_clients, c)]) :
                         bcast' = BroadcastBegin(c, n, connected_clients, to)
                 ELSE bcast' = NoBroadcast
    /\ UNCHANGED <<connected_clients, forwarded, joins>>
    /\ UNCHANGED <<progVars, agentVars, featVars, ckptVars, rateVars>>

(* lines 88-94: the await on client.send is over (the message is delivered, *)
(* or the send raised for a connection that has ended) and the loop goes on *)
RelaySendEnds ==
    /\ bcast.at = "sending"
    /\ forwarded' = IF bcast.to \in connected_clients
                    THEN forwarded \cup {[to |-> bcast.to, n |-> bcast.n]}
                    ELSE forwarded
    /\ \E c \in NextClients(bcast) : bcast' = IterNext(bcast, connected_clients, c)
    /\ UNCHANGED <<connected_clients, relay_drone_state, received, joins>>
    /\ UNCHANGED <<progVars, agentVars, featVars, ckptVars, rateVars>>

RelayNext == RelayConnect \/ RelayDisconnect \/ RelayReceive \/ RelaySendEnds

SpecRelay == RelayInit /\ [][RelayNext]_vars

(* C40: a relayed message reaches every other client that stayed registered *)
(* for the whole broadcast, and never its sender, whatever connects or      *)
(* disconnects while the broadcast is under way.                            *)
C40_RelayedToAllOthers ==
    /\ bcast.at \in {"done", "raised"} =>
          \A c \in bcast.stayed : [to |-> c, n |-> bcast.n] \in forwarded
    /\ \A d \in forwarded : d.to # received[d.n].from

====
